---- MODULE Spec2Model ----
(***************************************************************************)
(* A model of pthethanh/tiny: a site is built from a YAML definition by    *)
(* NewSite, its pages are served through a router built on the first       *)
(* ServeHTTP call, page data comes from per-page data handlers, and the    *)
(* static generator mirrors responses to disk.                             *)
(***************************************************************************)
EXTENDS Integers, Sequences, FiniteSets, TLC

VARIABLES
    cfg,      \* the YAML file given to NewSite, the options and nothing else
    fs,       \* the file system: file name -> content
    site,     \* the Site struct
    result,   \* how NewSite ended: "none" (not called), "panic", "returned"
    logged,   \* the warnings NewSite logged
    resp,     \* what the last request got back
    call,     \* the arguments of a call of a function that keeps no state
    ret,      \* what that call returned
    gor,      \* the goroutines calling into the site at the same time
    locks,    \* who holds site.mu and the mutex of site.once (0: nobody)
    builds,   \* how many times the function given to site.once.Do has run
    fatal,    \* the runtime has ended the process with a fatal error
    staticSite, \* the StaticSite section of the site
    disk,     \* the directories and files under which static pages are written
    served    \* the last request that went through the static generator handler

vars == <<cfg, fs, site, result, logged, resp, call, ret, gor, locks, builds, fatal,
          staticSite, disk, served>>

siteVars == <<cfg, fs, site, result, logged, resp>>
fnVars == <<call, ret>>
concVars == <<gor, locks, builds, fatal>>
genVars == <<staticSite, disk, served>>
otherVars == <<fnVars, concVars, genVars>>

----------------------------------------------------------------------------
(* Constants of the program *)

PageNotFound == "not_found"
PageError == "error"
PageRobotsTxt == "robots.txt"
PageSitemapXML == "sitemap.xml"
jsonPrefix == "json://"
DefaultDelimLeft == "[["
DefaultDelimRight == "]]"
StatusNotFound == 404
StatusInternalServerError == 500
StatusFound == 302

DefaultPageNames == {PageRobotsTxt, PageSitemapXML, PageError, PageNotFound}

----------------------------------------------------------------------------
(* Go maps and values *)

EmptyMap == [k \in {} |-> ""]

Put(m, k, v) == [x \in (DOMAIN m) \cup {k} |-> IF x = k THEN v ELSE m[x]]

\* a Go string that may start with the json:// prefix: prefix and rest
Str(p, r) == [prefix |-> p, rest |-> r]

\* a Go interface{} value: its dynamic type, its payload and, for an error,
\* its code
Val(t, v, c) == [type |-> t, v |-> v, code |-> c]
NilVal == Val("nil", Str("", ""), 0)
StrVal(s) == Val("string", s, 0)
MapVal(content) == Val("map", Str("", content), 0)
ErrVal(c) == Val("error", Str("", "error"), c)

\* a map[string]interface{} that may be nil
NilMeta == [nil |-> TRUE, kv |-> EmptyMap]
Meta(m) == [nil |-> FALSE, kv |-> m]

\* PageData, and its zero value
PageData(meta, authenticated, user, err, cookies, data) ==
    [MetaData |-> meta, Authenticated |-> authenticated, User |-> user,
     Error |-> err, Cookies |-> cookies, Data |-> data]
ZeroPageData == PageData(EmptyMap, FALSE, "", NilVal, {}, NilVal)

\* a DataHandler is nil or a closure: kind says which closure it is, file and
\* data are what it captured, pd is the PageData a user handler may return
Handler(kind, file, data, pd) ==
    [kind |-> kind, file |-> file, data |-> data, pd |-> pd]
NoHandler == Handler("nil", "", NilVal, ZeroPageData)

\* Page as yaml.Unmarshal leaves it: no DataHandler, not embedded
Page(path, layout, comps, meta, auth, dl, dr, data) ==
    [Path |-> path, Layout |-> layout, Components |-> comps, MetaData |-> meta,
     Auth |-> auth, DelimLeft |-> dl, DelimRight |-> dr, Data |-> data,
     DataHandler |-> NoHandler, embed |-> FALSE]

\* templates/common.html parsed with the delimiters dl and dr, or not parsed
Common(dl, dr) == [parsed |-> TRUE, delimLeft |-> dl, delimRight |-> dr]
NoCommon == [parsed |-> FALSE, delimLeft |-> "", delimRight |-> ""]

\* a parsed *template.Template: how templates/common.html was parsed into it
\* first, if it was, and the files parsed with which delimiters (the
\* template's name plays no part in what is checked here)
Template(common, dl, dr, files) ==
    [common |-> common, delimLeft |-> dl, delimRight |-> dr, files |-> files]

Perms(S) ==
    {s \in [1..Cardinality(S) -> S] : \A x \in S : \E i \in DOMAIN s : s[i] = x}

----------------------------------------------------------------------------
(* NewSite *)

DefaultMetaData ==
    "lang" :> "en" @@ "author" :> "tiny" @@ "description" :> "Tiny" @@
    "domain" :> "localhost" @@ "key_words" :> "[tiny]" @@ "title" :> "Tiny" @@
    "type" :> "WebSite" @@ "site_name" :> "Tiny" @@ "version" :> "v0.0.1" @@
    "image" :> "" @@ "base_url" :> "" @@ "canonical_url" :> ""

\* a *mux.Router: the prefix of the static route, the page routes and, for
\* each path, the page whose route was registered first; the nil router has none
Router(prefix, routes, first) ==
    [nil |-> FALSE, staticPrefix |-> prefix, routes |-> routes, first |-> first]
NoRouter == [nil |-> TRUE, staticPrefix |-> "", routes |-> {}, first |-> EmptyMap]

\* the Site literal of NewSite, before the file is unmarshalled into it
DefaultSite ==
    [MetaData |-> DefaultMetaData,
     Pages |-> EmptyMap,
     Errors |-> (PageNotFound :> <<StatusNotFound>> @@
                 PageError :> <<StatusInternalServerError>>),
     errors |-> EmptyMap,
     templates |-> EmptyMap,
     Validate |-> TRUE,
     DelimLeft |-> DefaultDelimLeft,
     DelimRight |-> DefaultDelimRight,
     Reload |-> FALSE,
     Static |-> "",
     StaticPrefix |-> "",
     Login |-> "",
     Layouts |-> EmptyMap,
     authInfo |-> FALSE,
     once |-> FALSE,
     router |-> NoRouter]

\* yaml.Unmarshal(b, &site): a scalar of the file replaces the field, a mapping
\* of the file is decoded into the map the field already holds, key by key
Unmarshal(s, y) ==
    [s EXCEPT !.MetaData = y.MetaData @@ s.MetaData,
              !.Pages = y.Pages @@ s.Pages,
              !.Errors = y.Errors @@ s.Errors,
              !.Validate = y.Validate,
              !.Reload = y.Reload,
              !.Static = y.Static,
              !.StaticPrefix = y.StaticPrefix,
              !.Login = y.Login,
              !.Layouts = y.Layouts @@ s.Layouts,
              !.DelimLeft = y.DelimLeft,
              !.DelimRight = y.DelimRight]

\* the AuthInfo option, when given
ApplyOptions(s, opts) == [s EXCEPT !.authInfo = opts.authInfo]

EmbedTemplate(pattern) ==
    Template(NoCommon, DefaultDelimLeft, DefaultDelimRight, <<pattern>>)

addEmbedPage(s, name, pattern, p) ==
    [s EXCEPT !.templates = Put(s.templates, name, EmbedTemplate(pattern)),
              !.Pages = Put(s.Pages, name, [p EXCEPT !.embed = TRUE])]

DefaultPage(path, h) ==
    [Page(path, "", <<>>, NilMeta, FALSE, "", "", NilVal) EXCEPT !.DataHandler = h]

SiteMapHandler == Handler("sitemap", "", Val("SiteMap", Str("", "/"), 0), ZeroPageData)
RobotsTxtHandler == Handler("robots", "", Val("RobotsTXT", Str("", "*"), 0), ZeroPageData)

addDefaultRobotsTxt(s) ==
    addEmbedPage(s, PageRobotsTxt, "templates/robots.txt",
                 DefaultPage("/robots.txt", RobotsTxtHandler))

addDefaultSiteMap(s) ==
    addEmbedPage(s, PageSitemapXML, "templates/sitemap.xml",
                 DefaultPage("/sitemap.xml", SiteMapHandler))

\* the default pages added without looking at what the file defines
addDefaultPagesAlways(s) ==
    addEmbedPage(
        addEmbedPage(addDefaultSiteMap(addDefaultRobotsTxt(s)), PageError,
                     "templates/error.html", DefaultPage("/error", NoHandler)),
        PageNotFound, "templates/not_found.html", DefaultPage("/404", NoHandler))

addDefaultPagesIfNotExists(s) ==
    LET s1 == IF PageRobotsTxt \in DOMAIN s.Pages THEN s ELSE addDefaultRobotsTxt(s)
        s2 == IF PageSitemapXML \in DOMAIN s1.Pages THEN s1 ELSE addDefaultSiteMap(s1)
        s3 == IF PageError \in DOMAIN s2.Pages THEN s2
              ELSE addEmbedPage(s2, PageError, "templates/error.html",
                                DefaultPage("/error", NoHandler))
        s4 == IF PageNotFound \in DOMAIN s3.Pages THEN s3
              ELSE addEmbedPage(s3, PageNotFound, "templates/not_found.html",
                                DefaultPage("/404", NoHandler))
    IN s4

\* json.Unmarshal into a map succeeds on these file contents only
JSONObjects == {"{a}", "{b}"}

\* loadData of jsonFileDataHandler: the data and whether it failed
loadData(f, files) ==
    IF f \notin DOMAIN files THEN [err |-> TRUE, data |-> ErrVal(StatusInternalServerError)]
    ELSE IF files[f] \notin JSONObjects
         THEN [err |-> TRUE, data |-> ErrVal(StatusInternalServerError)]
         ELSE [err |-> FALSE, data |-> MapVal(files[f])]

\* a jsonFileDataHandler that swallows the error of its first load
jsonFileDataHandlerNeverPanics(f, files) == FALSE

\* jsonFileDataHandler(f): panics when the first load fails
jsonFileDataHandlerPanics(f, files) == loadData(f, files).err
jsonFileDataHandler(f, files) ==
    Handler("json", f, loadData(f, files).data, ZeroPageData)

IsJSONData(d) == d.type = "string" /\ d.v.prefix = jsonPrefix

SetDataHandler(s, name, h) ==
    IF name \notin DOMAIN s.Pages THEN s
    ELSE [s EXCEPT !.Pages = [s.Pages EXCEPT ![name].DataHandler = h]]

\* the loop of NewSite over site.Pages that sets data handlers; a page's
\* handler depends on that page alone, so the map's order does not show
SetConfiguredDataHandlers(s, files) ==
    [s EXCEPT !.Pages = [n \in DOMAIN s.Pages |->
        LET p == s.Pages[n] IN
        IF p.Data.type = "nil" THEN p
        ELSE IF IsJSONData(p.Data)
             THEN [p EXCEPT !.DataHandler = jsonFileDataHandler(p.Data.v.rest, files)]
             ELSE [p EXCEPT !.DataHandler = Handler("raw", "", p.Data, ZeroPageData)]]]

ConfiguredDataPanics(s, files) ==
    \E n \in DOMAIN s.Pages :
        IsJSONData(s.Pages[n].Data)
        /\ jsonFileDataHandlerPanics(s.Pages[n].Data.v.rest, files)

\* site.errors[err] = p for each err of errs, in the slice's order
RECURSIVE RemapCodes(_, _, _)
RemapCodes(table, p, errs) ==
    IF errs = <<>> THEN table
    ELSE RemapCodes(Put(table, Head(errs), p), p, Tail(errs))

\* the re-mapping loop of NewSite, ranging over site.Errors in the given order
RECURSIVE RemapErrors(_, _, _)
RemapErrors(table, Errors, order) ==
    IF order = <<>> THEN table
    ELSE RemapErrors(RemapCodes(table, Head(order), Errors[Head(order)]),
                     Errors, Tail(order))

SeqToSet(q) == {q[i] : i \in DOMAIN q}

\* validateSite: TRUE when it returns nil
validateSite(s, files) ==
    /\ (s.Static # "" => s.Static \in DOMAIN files)
    /\ \A l \in DOMAIN s.Layouts : \A c \in SeqToSet(s.Layouts[l]) : c \in DOMAIN files
    /\ \A n \in DOMAIN s.Pages :
          /\ (s.Pages[n].Layout \in DOMAIN s.Layouts \/ s.Pages[n].Layout = "")
          /\ \A c \in SeqToSet(s.Pages[n].Components) : c \in DOMAIN files
    /\ ~ ((\E n \in DOMAIN s.Pages : s.Pages[n].Auth) /\ ~ s.authInfo)

\* NewSite(path, options...): outcome "panic" or "returned", the site and
\* whether the invalid-config warning was logged. order is the order in which
\* the re-mapping loop ranges over site.Errors
NewSite(c, files, order) ==
    IF c.file = "unreadable" THEN [outcome |-> "panic", site |-> DefaultSite, warn |-> FALSE]
    ELSE IF c.file = "invalid" THEN [outcome |-> "panic", site |-> DefaultSite, warn |-> FALSE]
    ELSE
      LET s1 == Unmarshal(DefaultSite, c.yaml)
          s2 == ApplyOptions(s1, c.options)
          s3 == addDefaultPagesIfNotExists(s2)
      IN IF ConfiguredDataPanics(s3, files)
         THEN [outcome |-> "panic", site |-> DefaultSite, warn |-> FALSE]
         ELSE
           LET s4 == SetConfiguredDataHandlers(s3, files)
               s5 == [s4 EXCEPT !.errors = RemapErrors(s4.errors, s4.Errors, order)]
           IN IF validateSite(s5, files)
              THEN [outcome |-> "returned", site |-> s5, warn |-> FALSE]
              ELSE IF s5.Validate
                   THEN [outcome |-> "panic", site |-> DefaultSite, warn |-> FALSE]
                   ELSE [outcome |-> "returned", site |-> s5, warn |-> TRUE]

\* the orders in which a range over site.Errors may run
ErrorsOrders(c) == Perms(DOMAIN Unmarshal(DefaultSite, c.yaml).Errors)

----------------------------------------------------------------------------
(* Serving a page *)

\* a request: its URL path (a directory prefix and the rest), its method, what
\* the AuthInfoFunc reports for its context, and its cookies
Request(dir, name, method, auth, user, cookies) ==
    [path |-> [dir |-> dir, name |-> name], method |-> method, auth |-> auth,
     user |-> user, cookies |-> cookies]

\* a response: which writer produced it, the page rendered and the data given
\* to its template, the DataHandler that was run, the redirect target and how
\* many times the page's handler was called
Response(kind, name, data, handler, location, calls) ==
    [kind |-> kind, name |-> name, data |-> data, handler |-> handler,
     location |-> location, calls |-> calls, pageData |-> ZeroPageData]

\* the Location of a redirect to the login page: loginPath?redirect=path
Redirect(login, path) == [login |-> login, redirect |-> path]
NoLocation == Redirect("", [dir |-> "", name |-> ""])

\* the merge with the site's value winning over the page's
getPageMetaDataSiteWins(s, name) ==
    IF name \notin DOMAIN s.Pages THEN [meta |-> s.MetaData, site |-> s]
    ELSE [meta |-> s.MetaData @@ s.Pages[name].MetaData.kv, site |-> s]

\* getPageMetaData: the metadata returned and the site after the call; a page
\* whose map is not nil has the site's keys written into its own map
getPageMetaData(s, name) ==
    IF name \notin DOMAIN s.Pages THEN [meta |-> s.MetaData, site |-> s]
    ELSE LET page == s.Pages[name] IN
         IF page.MetaData.nil
         THEN [meta |-> [k \in DOMAIN s.MetaData |-> s.MetaData[k]], site |-> s]
         ELSE LET merged ==
                      [k \in (DOMAIN page.MetaData.kv) \cup (DOMAIN s.MetaData) |->
                          IF k \in DOMAIN page.MetaData.kv THEN page.MetaData.kv[k]
                          ELSE s.MetaData[k]]
              IN [meta |-> merged,
                  site |-> [s EXCEPT !.Pages[name].MetaData.kv = merged]]

GetPageData(s, pageName, r, err) ==
    LET authenticated == IF s.authInfo THEN r.auth ELSE FALSE
        claims == IF s.authInfo THEN r.user ELSE ""
        m == getPageMetaData(s, pageName)
    IN [data |-> PageData(m.meta, authenticated, claims, err, r.cookies, NilVal),
        site |-> m.site]

\* an error that is no tiny.Error and has no Code method
GenericErr == Val("error", Str("", "generic"), 0)

\* ErrorFromErr(err).Code()
ErrorCode(err) ==
    IF err = GenericErr THEN StatusInternalServerError ELSE err.code

\* a JSON file handler that never reads the file again
RunHandlerNeverReloads(h, s, files) ==
    IF h.kind = "userpd" THEN [isPD |-> TRUE, pd |-> h.pd, val |-> NilVal]
    ELSE [isPD |-> FALSE, pd |-> ZeroPageData, val |-> h.data]

\* calling a DataHandler: whether it returned a PageData, and what it returned
RunHandler(h, s, files) ==
    IF h.kind = "userpd" THEN [isPD |-> TRUE, pd |-> h.pd, val |-> NilVal]
    ELSE IF h.kind = "json"
         THEN [isPD |-> FALSE, pd |-> ZeroPageData,
               val |-> IF ~ s.Reload THEN h.data ELSE loadData(h.file, files).data]
         ELSE [isPD |-> FALSE, pd |-> ZeroPageData, val |-> h.data]

\* a parse that takes the page's delimiters as soon as one of them is set
parsePageFilesEitherDelim(s, name, files) ==
    IF name \notin DOMAIN s.Pages THEN [err |-> ErrVal(StatusNotFound), site |-> s]
    ELSE
      LET page == s.Pages[name]
          layouts == IF page.Layout \in DOMAIN s.Layouts
                     THEN s.Layouts[page.Layout] ELSE <<>>
          tfiles == layouts \o page.Components
          own == page.DelimLeft # "" \/ page.DelimRight # ""
          delimLeft == IF own THEN page.DelimLeft ELSE s.DelimLeft
          delimRight == IF own THEN page.DelimRight ELSE s.DelimRight
      IN IF Len(tfiles) = 0 THEN [err |-> ErrVal(StatusNotFound), site |-> s]
         ELSE IF \E f \in SeqToSet(tfiles) : f \notin DOMAIN files
              THEN [err |-> GenericErr, site |-> s]
              ELSE [err |-> NilVal,
                    site |-> [s EXCEPT !.templates =
                                 Put(s.templates, name,
                                     Template(Common(DefaultDelimLeft, DefaultDelimRight),
                                              delimLeft, delimRight, tfiles))]]

\* parseTemplate from "parse the template" on: the error (nil when there is
\* none) and the site after it
parsePageFiles(s, name, files) ==
    IF name \notin DOMAIN s.Pages THEN [err |-> ErrVal(StatusNotFound), site |-> s]
    ELSE
      LET page == s.Pages[name]
          layouts == IF page.Layout \in DOMAIN s.Layouts
                     THEN s.Layouts[page.Layout] ELSE <<>>
          tfiles == layouts \o page.Components
          own == page.DelimLeft # "" /\ page.DelimRight # ""
          delimLeft == IF own THEN page.DelimLeft ELSE s.DelimLeft
          delimRight == IF own THEN page.DelimRight ELSE s.DelimRight
      IN IF Len(tfiles) = 0 THEN [err |-> ErrVal(StatusNotFound), site |-> s]
         ELSE IF \E f \in SeqToSet(tfiles) : f \notin DOMAIN files
              THEN [err |-> GenericErr, site |-> s]
              ELSE [err |-> NilVal,
                    site |-> [s EXCEPT !.templates =
                                 Put(s.templates, name,
                                     Template(Common(DefaultDelimLeft, DefaultDelimRight),
                                              delimLeft, delimRight, tfiles))]]

\* parseTemplate: the error (nil when there is none) and the site after it
parseTemplate(s, name, files) ==
    LET loaded == name \in DOMAIN s.templates
        isEmbed == name \in DOMAIN s.Pages /\ s.Pages[name].embed
    IN IF loaded /\ isEmbed THEN [err |-> NilVal, site |-> s]
       ELSE IF loaded /\ ~ s.Reload THEN [err |-> NilVal, site |-> s]
       ELSE parsePageFiles(s, name, files)

\* handlePage: parse (or take the cached template) and execute it on data;
\* executing the parsed template on the page data is taken to succeed
handlePage(s, name, data, files) == parseTemplate(s, name, files)

\* handleError: the page of the error's code, or the error page; a plain 500
\* when that page cannot be rendered
handleError(s, r, err, files, h, calls) ==
    LET code == ErrorCode(err)
        name == IF code \in DOMAIN s.errors THEN s.errors[code] ELSE PageError
        g == GetPageData(s, name, r, err)
        e == handlePage(g.site, name, g.data, files)
    IN IF e.err.type = "nil"
       THEN [site |-> e.site, resp |-> Response("errorpage", name, g.data, h, NoLocation, calls)]
       ELSE [site |-> e.site, resp |-> Response("http.Error", name, g.data, h, NoLocation, calls)]

\* a PageData from the handler that is merged into the default page data
\* instead of replacing it
ServePageDataMerged(g, hasHandler, d) ==
    IF ~ hasHandler THEN g.data
    ELSE IF d.isPD THEN [d.pd EXCEPT !.MetaData = g.data.MetaData]
         ELSE [g.data EXCEPT !.Data = d.val]

\* the page data ServePage renders: the default page data g, or what the
\* DataHandler's result d makes of it
ServePageDataOf(g, hasHandler, d) ==
    IF ~ hasHandler THEN g.data
    ELSE IF d.isPD THEN d.pd ELSE [g.data EXCEPT !.Data = d.val]

\* the handler ServePage(name) returns, called on request r
ServePage(s, name, r, files) ==
    LET g == GetPageData(s, name, r, NilVal)
        s1 == g.site
        hasHandler == name \in DOMAIN s1.Pages /\ s1.Pages[name].DataHandler.kind # "nil"
        h == IF hasHandler THEN s1.Pages[name].DataHandler ELSE NoHandler
        d == RunHandler(h, s1, files)
        data == ServePageDataOf(g, hasHandler, d)
        out == IF data.Data.type = "error"
               THEN handleError(s1, r, data.Data, files, h, 1)
               ELSE LET e == handlePage(s1, name, data, files) IN
                    IF e.err.type = "nil"
                    THEN [site |-> e.site,
                          resp |-> Response("page", name, data, h, NoLocation, 1)]
                    ELSE handleError(e.site, r, e.err, files, h, 1)
    IN [site |-> out.site, resp |-> [out.resp EXCEPT !.pageData = data]]

----------------------------------------------------------------------------
(* The router and ServeHTTP *)

HasPrefix(path, prefix) == prefix = "" \/ path.dir = prefix

PagePaths(s) == {s.Pages[n].Path : n \in DOMAIN s.Pages}

PagesAt(s, q) == {n \in DOMAIN s.Pages : s.Pages[n].Path = q}

\* the ways the range over site.Pages may order the routes of pages that
\* share a path: for each path, the page registered first
RECURSIVE FirstOver(_, _)
FirstOver(s, paths) ==
    IF paths = {} THEN {EmptyMap}
    ELSE LET q == CHOOSE x \in paths : TRUE IN
         {Put(w, q, n) : w \in FirstOver(s, paths \ {q}), n \in PagesAt(s, q)}

FirstChoices(s) == FirstOver(s, PagePaths(s))

\* the function given to site.once.Do
BuildRouter(s, first) ==
    [s EXCEPT !.once = TRUE,
              !.router = Router(s.StaticPrefix,
                                {[path |-> s.Pages[n].Path, name |-> n, method |-> "GET",
                                  auth |-> s.Pages[n].Auth] : n \in DOMAIN s.Pages},
                                first)]

\* router.ServeHTTP: the route a request is dispatched to. The static route
\* was registered first and has no method matcher; a path that matches page
\* routes of another method only is answered 405 by the router
Dispatch(router, r) ==
    IF HasPrefix(r.path, router.staticPrefix) THEN [to |-> "static", name |-> "", auth |-> FALSE]
    ELSE IF r.path.dir = "" /\ r.path.name \in DOMAIN router.first
         THEN LET n == router.first[r.path.name]
                  rt == CHOOSE x \in router.routes : x.name = n
              IN IF r.method = rt.method
                 THEN [to |-> "page", name |-> n, auth |-> rt.auth]
                 ELSE [to |-> "405", name |-> "", auth |-> FALSE]
         ELSE [to |-> "notfound", name |-> PageNotFound, auth |-> FALSE]

\* AuthRequired(loginPath, authInfoFunc)(h) on a request for which authInfoFunc
\* reports ok: whether it redirects to the login page, and how many times it
\* calls h
AuthRequired(ok) == [redirect |-> ~ ok, calls |-> 0]

\* what the router's handler for the dispatched route does
Handle(s, t, r, files) ==
    IF t.to = "static"
    THEN [site |-> s, resp |-> Response("static", "", ZeroPageData, NoHandler, NoLocation, 0)]
    ELSE IF t.to = "405"
    THEN [site |-> s, resp |-> Response("405", "", ZeroPageData, NoHandler, NoLocation, 0)]
    ELSE IF t.to = "page" /\ t.auth
    THEN IF ~ s.authInfo
         THEN \* a nil AuthInfoFunc is called: the request's goroutine panics
              [site |-> s, resp |-> Response("panic", t.name, ZeroPageData, NoHandler, NoLocation, 0)]
         ELSE LET a == AuthRequired(r.auth) IN
              IF a.redirect
              THEN [site |-> s,
                    resp |-> Response("redirect", t.name, ZeroPageData, NoHandler,
                                      Redirect(s.Login, r.path), a.calls)]
              ELSE IF a.calls = 0
                   THEN [site |-> s,
                         resp |-> Response("empty", t.name, ZeroPageData, NoHandler,
                                           NoLocation, 0)]
                   ELSE ServePage(s, t.name, r, files)
    ELSE ServePage(s, t.name, r, files)

----------------------------------------------------------------------------
(* The configurations and the file system NewSite is run on *)

InitFS ==
    "layout.html" :> "html" @@ "c.html" :> "html" @@ "static" :> "dir" @@
    "ok.json" :> "{a}" @@ "bad.json" :> "garbage"

\* the fields a YAML file sets (a field it leaves out keeps DefaultSite's value)
YAML(pages, errs, meta, validate, reload, static, prefix) ==
    [Pages |-> pages, Errors |-> errs, MetaData |-> meta, Validate |-> validate,
     Reload |-> reload, Static |-> static, StaticPrefix |-> prefix,
     Login |-> "/login", Layouts |-> ("main" :> <<"layout.html">>),
     DelimLeft |-> DefaultDelimLeft, DelimRight |-> DefaultDelimRight]

Config(file, yaml, authInfo) ==
    [file |-> file, yaml |-> yaml, options |-> [authInfo |-> authInfo]]

EmptyYAML == YAML(EmptyMap, EmptyMap, EmptyMap, TRUE, FALSE, "", "")

\* pages a file may define
PlainPage == Page("/", "", <<"c.html">>, NilMeta, FALSE, "", "", NilVal)
JSONPage(f) ==
    Page("/p", "main", <<>>, Meta("title" :> "Page" @@ "extra" :> "x"), TRUE, "", "",
         StrVal(Str(jsonPrefix, f)))
RawPage == Page("/raw", "main", <<"c.html">>, Meta("title" :> "Raw" @@ "more" :> "y"),
                FALSE, "", "", StrVal(Str("", "hello")))
NoLayoutPage == Page("/n", "nolayout", <<>>, Meta(EmptyMap), FALSE, "", "", NilVal)
NoFilePage == Page("/m", "", <<"missing.html">>, NilMeta, FALSE, "", "", NilVal)

PageChoices ==
    {PlainPage, JSONPage("ok.json"), JSONPage("bad.json"), JSONPage("missing.json"),
     RawPage, NoLayoutPage, NoFilePage}

\* the page names a file may use: a page of its own and two default names
ConfigPageNames == {"index", PageError, PageRobotsTxt}

PagesChoices ==
    UNION {[S -> PageChoices] : S \in SUBSET ConfigPageNames}

\* errors sections a file may have; the second lists 404 under a page other
\* than not_found, the last lists one code under two pages
ErrorsChoices ==
    {EmptyMap,
     "index" :> <<StatusNotFound>>,
     PageNotFound :> <<StatusNotFound, 410>>,
     "index" :> <<403, 401>> @@ PageError :> <<StatusInternalServerError, 403>>}

StaticChoices == {"", "static", "nostatic"}

ValidConfigs ==
    {Config("ok", YAML(ps, es, EmptyMap, v, FALSE, st, "/static/"), a) :
        ps \in PagesChoices, es \in ErrorsChoices, v \in BOOLEAN,
        st \in StaticChoices, a \in BOOLEAN}

Configs ==
    {Config("unreadable", EmptyYAML, FALSE), Config("invalid", EmptyYAML, FALSE)}
    \cup ValidConfigs

\* the configurations requests are served on
ServePagesChoices ==
    {("index" :> q) : q \in {PlainPage, JSONPage("ok.json"), RawPage, NoFilePage}}
    \cup {("index" :> PlainPage @@ PageError :> RawPage),
          ("index" :> PlainPage @@ "home" :> [RawPage EXCEPT !.Path = "/"])}

ServeMetaData == "title" :> "Site" @@ "custom" :> "c"

ServeConfigs ==
    {Config("ok", YAML(ps, es, ServeMetaData, FALSE, rl, "static", "/static/"), TRUE) :
        ps \in ServePagesChoices,
        es \in {EmptyMap, "index" :> <<StatusNotFound>>, "gone" :> <<StatusNotFound>>},
        rl \in BOOLEAN}
    \cup
    \* no static_prefix in the file, and no AuthInfo option
    {Config("ok", YAML("index" :> PlainPage, EmptyMap, ServeMetaData, FALSE, FALSE,
                       "static", ""), TRUE),
     Config("ok", YAML("index" :> JSONPage("ok.json"), EmptyMap, ServeMetaData, FALSE,
                       FALSE, "static", "/static/"), FALSE)}

Requests ==
    {Request(pth[1], pth[2], "GET", a[1], a[2], a[3]) :
        pth \in {<<"", "/">>, <<"", "/p">>, <<"", "/raw">>, <<"", "/nope">>,
                 <<"", "/sitemap.xml">>, <<"/static/", "app.js">>},
        a \in {<<FALSE, "", {}>>, <<TRUE, "alice", {"sid"}>>}}
    \cup {Request("", "/", "POST", FALSE, "", {})}

\* handlers a program registers with SetDataHandler
CustomPageData ==
    PageData("title" :> "Custom", TRUE, "bob", NilVal, {}, StrVal(Str("", "custom")))

UserHandlers ==
    {Handler("user", "", StrVal(Str("", "hello")), ZeroPageData),
     Handler("user", "", ErrVal(StatusNotFound), ZeroPageData),
     Handler("userpd", "", NilVal, CustomPageData)}

HandlerNames == {"index", "nope"}

NoResponse == [kind |-> "none"]
NoCall == [fn |-> "none"]
NoCalls == call = NoCall /\ ret = NoCall
NoGoroutines == gor = <<>> /\ locks = [mu |-> 0, onceM |-> 0] /\ builds = 0 /\ fatal = FALSE
NoRequest == [kind |-> "none"]
EmptyDisk == [dirs |-> {}, files |-> EmptyMap]
NoStaticSite ==
    /\ staticSite = [RootDir |-> <<>>, AllowedPages |-> <<>>]
    /\ disk = EmptyDisk
    /\ served = NoRequest

----------------------------------------------------------------------------
(* Construction *)

InitWith(configs) ==
    /\ cfg \in configs
    /\ fs = InitFS
    /\ site = DefaultSite
    /\ result = "none"
    /\ logged = {}
    /\ resp = NoResponse
    /\ NoCalls
    /\ NoGoroutines
    /\ NoStaticSite

\* site := NewSite(path, options...)
NewSiteCall ==
    /\ result = "none"
    /\ \E order \in ErrorsOrders(cfg) :
          LET r == NewSite(cfg, fs, order) IN
          /\ result' = r.outcome
          /\ site' = r.site
          /\ logged' = IF r.warn THEN {"warn: invalid config file"} ELSE {}
    /\ UNCHANGED <<cfg, fs, resp, otherVars>>

\* site.ServeHTTP(rw, r) from start to end, with no other call running
ServeHTTP(r) ==
    /\ result = "returned"
    /\ \E first \in (IF site.once THEN {site.router.first} ELSE FirstChoices(site)) :
          LET s0 == IF site.once THEN site ELSE BuildRouter(site, first)
              t == Dispatch(s0.router, r)
              out == Handle(s0, t, r, fs)
          IN /\ site' = out.site
             /\ resp' = out.resp @@ [req |-> r, to |-> t.to, page |-> t.name,
                                     auth |-> t.auth, onceBefore |-> site.once]
    /\ UNCHANGED <<cfg, fs, result, logged, otherVars>>

\* site.SetDataHandler(name, h)
SetDataHandlerCall(name, h) ==
    /\ result = "returned"
    /\ site' = SetDataHandler(site, name, h)
    /\ UNCHANGED <<cfg, fs, result, logged, resp, otherVars>>

Init == InitWith(Configs)

Next == NewSiteCall

Spec == Init /\ [][Next]_vars

InitServe == InitWith(ServeConfigs)

NextServe ==
    \/ NewSiteCall
    \/ \E r \in Requests : ServeHTTP(r)
    \/ \E n \in HandlerNames, h \in UserHandlers : SetDataHandlerCall(n, h)

SpecServe == InitServe /\ [][NextServe]_vars

----------------------------------------------------------------------------
(* The metadata merge of the site whose MetaData is a struct *)

\* MetaData, the struct
MetaDataStruct(ver, lang, siteName, title, dom, base, canon, kw, author, type, img, desc) ==
    [Version |-> ver, Lang |-> lang, SiteName |-> siteName, Title |-> title,
     Domain |-> dom, BaseURL |-> base, CanonicalURL |-> canon,
     KeyWords |-> kw, Author |-> author, Type |-> type, Image |-> img,
     Description |-> desc]

\* the merge without the line that restores the site's Domain
getPageMetaDataStructKeepsDomain(siteMeta, pages, name) ==
    IF name \notin DOMAIN pages THEN siteMeta
    ELSE LET meta == pages[name] IN
         [f \in DOMAIN meta |->
            IF f \in {"SiteName", "BaseURL"} THEN siteMeta[f]
            ELSE IF f = "KeyWords"
                 THEN IF Len(meta[f]) = 0 THEN siteMeta[f] ELSE meta[f]
                 ELSE IF meta[f] = "" THEN siteMeta[f] ELSE meta[f]]

\* if meta.F == "" { meta.F = site.MetaData.F }
FillIfEmpty(meta, f, siteMeta) ==
    IF meta[f] = "" THEN [meta EXCEPT ![f] = siteMeta[f]] ELSE meta

\* if len(meta.KeyWords) == 0 { meta.KeyWords = append(meta.KeyWords, ...) }
FillKeyWords(meta, siteMeta) ==
    IF Len(meta.KeyWords) = 0
    THEN [meta EXCEPT !.KeyWords = meta.KeyWords \o siteMeta.KeyWords]
    ELSE meta

\* getPageMetaData of that site: pages maps a page name to its MetaData
getPageMetaDataStruct(siteMeta, pages, name) ==
    IF name \notin DOMAIN pages THEN siteMeta
    ELSE
      LET meta == pages[name]
          m0 == [meta EXCEPT !.Domain = siteMeta.Domain,
                             !.SiteName = siteMeta.SiteName,
                             !.BaseURL = siteMeta.BaseURL]
          m1 == FillIfEmpty(m0, "Image", siteMeta)
          m2 == FillIfEmpty(m1, "Title", siteMeta)
          m3 == FillIfEmpty(m2, "Author", siteMeta)
          m4 == FillKeyWords(m3, siteMeta)
          m5 == FillIfEmpty(m4, "Description", siteMeta)
          m6 == FillIfEmpty(m5, "Lang", siteMeta)
          m7 == FillIfEmpty(m6, "CanonicalURL", siteMeta)
          m8 == FillIfEmpty(m7, "Author", siteMeta)
          m9 == FillIfEmpty(m8, "Type", siteMeta)
          m10 == FillIfEmpty(m9, "Image", siteMeta)
      IN FillIfEmpty(m10, "Version", siteMeta)

\* the site metadata NewSite starts from, and one with every field set
DefaultMetaDataStruct ==
    MetaDataStruct("v0.0.1", "en", "Tiny", "Tiny", "localhost", "", "", <<"tiny">>,
                   "tiny", "WebSite", "", "Tiny")
FullMetaDataStruct ==
    MetaDataStruct("v2", "vi", "Site", "Home", "example.com", "/base", "/canon",
                   <<"a", "b">>, "me", "Blog", "/i.png", "A site")

\* a page's metadata with every field set
PageMetaDataStruct ==
    MetaDataStruct("p-v1", "fr", "p-site", "p-title", "p.example", "/p", "/p-canon",
                   <<"p">>, "p-author", "Article", "/p.png", "p-desc")

\* how many fields a page's metadata may differ in from all-empty or all-set
MaxFieldsApart == 2

\* a page's metadata with the fields of S set and the others left out of the file
PageMetaDataWith(S) ==
    [f \in DOMAIN PageMetaDataStruct |->
        IF f \in S THEN PageMetaDataStruct[f]
        ELSE IF f = "KeyWords" THEN <<>> ELSE ""]

StructPageChoices ==
    {PageMetaDataWith(S) : S \in
        {T \in SUBSET DOMAIN PageMetaDataStruct :
            \/ Cardinality(T) <= MaxFieldsApart
            \/ Cardinality(DOMAIN PageMetaDataStruct \ T) <= MaxFieldsApart}}

InitMeta ==
    /\ cfg = Config("unreadable", EmptyYAML, FALSE)
    /\ fs = InitFS
    /\ site = DefaultSite
    /\ result = "none"
    /\ logged = {}
    /\ resp = NoResponse
    /\ \E sm \in {DefaultMetaDataStruct, FullMetaDataStruct}, pm \in StructPageChoices,
          n \in {"index", "other"} :
          call = [fn |-> "getPageMetaData", site |-> sm, pages |-> ("index" :> pm),
                  name |-> n]
    /\ ret = NoCall
    /\ NoGoroutines
    /\ NoStaticSite

\* meta := site.getPageMetaData(name)
GetPageMetaDataCall ==
    /\ call.fn = "getPageMetaData"
    /\ ret = NoCall
    /\ ret' = [fn |-> call.fn,
               meta |-> getPageMetaDataStruct(call.site, call.pages, call.name)]
    /\ UNCHANGED <<siteVars, call, concVars, genVars>>

NextMeta == GetPageMetaDataCall

SpecMeta == InitMeta /\ [][NextMeta]_vars

GeneralFields == {"Domain", "SiteName", "BaseURL"}

IsEmptyField(f, v) == IF f = "KeyWords" THEN Len(v) = 0 ELSE v = ""

\* C6: in the struct-based merge, Domain, SiteName and BaseURL of a configured
\* page's metadata equal the site's values whatever the page configured, and
\* every other field equals the page's value when the page set a non-empty one
\* and the site's value otherwise.
C6_StructMerge ==
    (ret.fn = "getPageMetaData" /\ call.name \in DOMAIN call.pages) =>
        LET page == call.pages[call.name] IN
        /\ DOMAIN ret.meta = DOMAIN page
        /\ \A f \in DOMAIN page :
              ret.meta[f] = IF f \in GeneralFields THEN call.site[f]
                            ELSE IF IsEmptyField(f, page[f]) THEN call.site[f]
                            ELSE page[f]

\* the merge ran for a page that sets its own Domain, Title and KeyWords and
\* leaves Author out
C6_Witness ==
    /\ ret.fn = "getPageMetaData"
    /\ call.name \in DOMAIN call.pages
    /\ call.pages[call.name].Domain = "p.example"
    /\ call.pages[call.name].Author = ""
    /\ call.pages[call.name].KeyWords = <<>>
    /\ ret.meta.Domain = "example.com"
    /\ ret.meta.Title = "p-title"
    /\ ret.meta.KeyWords = <<"a", "b">>
    /\ ret.meta.Author = "me"

----------------------------------------------------------------------------
(* Claims about NewSite *)

\* the site as the file and the options define it, default pages added
LoadedSite(c) ==
    addDefaultPagesIfNotExists(ApplyOptions(Unmarshal(DefaultSite, c.yaml), c.options))

\* some page of the file names a JSON data file that is missing or is no JSON
JSONDataFails(c, files) ==
    \E n \in DOMAIN c.yaml.Pages :
        LET d == c.yaml.Pages[n].Data IN
        /\ d.type = "string"
        /\ d.v.prefix = jsonPrefix
        /\ (d.v.rest \notin DOMAIN files \/ files[d.v.rest] \notin JSONObjects)

ValidationFails(c, files) == ~ validateSite(LoadedSite(c), files)

Warned == "warn: invalid config file" \in logged

\* C3: NewSite panics exactly when the file cannot be read, is not valid YAML,
\* a page's JSON data file cannot be loaded, or validation fails while Validate
\* is true; a validation failure is logged as a warning, and the site is
\* returned, exactly when Validate is false.
C3_NewSitePanicsOnAnyError ==
    result # "none" =>
        /\ (result = "panic") <=>
              \/ cfg.file = "unreadable"
              \/ cfg.file = "invalid"
              \/ JSONDataFails(cfg, fs)
              \/ (ValidationFails(cfg, fs) /\ cfg.yaml.Validate)
        /\ (result = "returned" /\ ValidationFails(cfg, fs)) =>
              (~ cfg.yaml.Validate /\ Warned)
        /\ Warned =>
              (result = "returned" /\ ValidationFails(cfg, fs) /\ ~ cfg.yaml.Validate)

\* NewSite returned a site whose validation failed, with the warning logged
C3_Witness ==
    result = "returned" /\ Warned /\ ValidationFails(cfg, fs) /\ ~ site.Validate

\* the page the file defines under name n, as NewSite must leave it: every
\* field as in the file, not embedded, its data handler the one its data
\* field asks for and not a default page's
KeptAsConfigured(n) ==
    LET p == site.Pages[n]
        q == cfg.yaml.Pages[n]
    IN /\ [p EXCEPT !.DataHandler = NoHandler] = q
       /\ ~ p.embed
       /\ p.DataHandler.kind = (IF q.Data.type = "nil" THEN "nil"
                                ELSE IF IsJSONData(q.Data) THEN "json" ELSE "raw")

\* C4 as stated: after NewSite returns, Pages holds the four default names,
\* each with a cached template, and a page of the file with such a name is
\* kept as configured.
C4_Original ==
    result = "returned" =>
        \A n \in DefaultPageNames :
            /\ n \in DOMAIN site.Pages
            /\ n \in DOMAIN site.templates
            /\ (n \in DOMAIN cfg.yaml.Pages => KeptAsConfigured(n))

\* C4 amended: after NewSite returns, Pages holds the four default names; a
\* default page NewSite added is embedded and has its template cached; a page
\* of the file with a default name is kept as configured, is not embedded and
\* has no cached template yet.
C4_DefaultPagesOnlyIfMissing ==
    result = "returned" =>
        \A n \in DefaultPageNames :
            /\ n \in DOMAIN site.Pages
            /\ IF n \in DOMAIN cfg.yaml.Pages
               THEN KeptAsConfigured(n) /\ n \notin DOMAIN site.templates
               ELSE /\ site.Pages[n].embed
                    /\ n \in DOMAIN site.templates
                    /\ site.templates[n].delimLeft = DefaultDelimLeft
                    /\ site.templates[n].delimRight = DefaultDelimRight

\* NewSite returned a site whose file defines robots.txt with a data file and
\* leaves not_found to the default
C4_Witness ==
    /\ result = "returned"
    /\ PageRobotsTxt \in DOMAIN cfg.yaml.Pages
    /\ site.Pages[PageRobotsTxt].DataHandler.kind = "json"
    /\ PageError \in DOMAIN cfg.yaml.Pages
    /\ site.Pages[PageNotFound].embed

\* C7 as stated, the table: after NewSite, every code listed under a page in
\* Errors is mapped to that page by the internal table.
C7_Original ==
    result = "returned" =>
        \A p \in DOMAIN site.Errors :
            \A c \in SeqToSet(site.Errors[p]) :
                c \in DOMAIN site.errors /\ site.errors[c] = p

----------------------------------------------------------------------------
(* Claims about serving pages *)

HandlersOf(s) == [n \in DOMAIN s.Pages |-> s.Pages[n].DataHandler]

\* the step is a request for which ServePage(n) ran
ServePageRan(n) ==
    /\ result = "returned"
    /\ HandlersOf(site') = HandlersOf(site)
    /\ resp'.kind # "none"
    /\ resp'.calls = 1
    /\ resp'.page = n

\* what C1 asks of such a step: the handler run is the one the page holds when
\* the request arrives, a PageData it returns is the page data, any other
\* value goes into the Data field of the default page data, and that page
\* data is what the page's template is executed on
C1_Step(n) ==
    LET h == IF n \in DOMAIN site.Pages THEN site.Pages[n].DataHandler ELSE NoHandler
        default == GetPageData(site, n, resp'.req, NilVal).data
        pd == resp'.pageData
    IN /\ resp'.handler = h
       /\ (h.kind = "nil" => pd = default)
       /\ (h.kind = "userpd" => pd = h.pd)
       /\ (h.kind \in {"user", "raw", "sitemap", "robots"} =>
              pd = [default EXCEPT !.Data = h.data])
       /\ (h.kind = "json" => [pd EXCEPT !.Data = NilVal] = default)
       /\ (resp'.kind = "page" => resp'.name = n /\ resp'.data = pd)
       /\ (resp'.kind = "page" <=> pd.Data.type # "error" /\ resp'.name = n)

\* C1: serving a page that has a DataHandler calls the handler the page holds
\* at that request (whenever SetDataHandler registered it, before or after the
\* router was built); a PageData result replaces the default page data, any
\* other result is placed in the Data field of the default page data.
C1_DataHandlerResult ==
    [][\A n \in DOMAIN site.Pages : ServePageRan(n) => C1_Step(n)]_vars

\* a page was rendered on the PageData of a user handler, by a request that
\* found the router already built
C1_Witness ==
    /\ resp.kind = "page"
    /\ resp.onceBefore
    /\ resp.handler.kind = "userpd"
    /\ resp.data = CustomPageData
    /\ resp.page = "index"

\* C2 as stated: on a page wrapped in AuthRequired, a request that is not
\* authenticated is redirected to loginPath?redirect=path and the wrapped
\* handler is not called; an authenticated request has the wrapped handler
\* called exactly once and is not redirected.
C2_Original ==
    (resp.kind # "none" /\ resp.to = "page" /\ resp.auth /\ site.authInfo) =>
        IF ~ resp.req.auth
        THEN /\ resp.kind = "redirect"
             /\ resp.location = Redirect(site.Login, resp.req.path)
             /\ resp.calls = 0
        ELSE resp.calls = 1 /\ resp.kind # "redirect"

\* the metadata map the file gives page n
ConfiguredMeta(n) ==
    IF n \in DOMAIN cfg.yaml.Pages THEN cfg.yaml.Pages[n].MetaData.kv ELSE EmptyMap

\* the response carries page data that GetPageData made for page resp.name
FromGetPageData ==
    /\ resp.kind \in {"page", "errorpage", "http.Error"}
    /\ (resp.kind = "page" => resp.handler.kind # "userpd")

\* C5: the metadata of a configured page has the page's value for every key
\* the page defines, the site's value for every key only the site defines, and
\* no other key; for a name that is no configured page it is the site's
\* metadata.
C5_MetaDataMerge ==
    FromGetPageData =>
        LET n == resp.name
            m == resp.data.MetaData
        IN IF n \in DOMAIN site.Pages
           THEN /\ DOMAIN m = (DOMAIN ConfiguredMeta(n)) \cup (DOMAIN site.MetaData)
                /\ \A k \in DOMAIN m :
                      m[k] = IF k \in DOMAIN ConfiguredMeta(n) THEN ConfiguredMeta(n)[k]
                             ELSE site.MetaData[k]
           ELSE m = site.MetaData

\* a page that overrides the site's title and adds a key of its own was
\* rendered, after an earlier request had already merged its metadata
C5_Witness ==
    /\ resp.kind = "page"
    /\ resp.name = "index"
    /\ resp.data.MetaData["title"] = "Raw"
    /\ resp.data.MetaData["more"] = "y"
    /\ resp.data.MetaData["custom"] = "c"
    /\ resp.data.MetaData["lang"] = "en"
    /\ DOMAIN site.Pages["index"].MetaData.kv # DOMAIN ConfiguredMeta("index")


----------------------------------------------------------------------------
(* Concurrent calls: every request runs ServeHTTP in a goroutine of its    *)
(* own, and the program may call SetDataHandler meanwhile. A goroutine's   *)
(* pc names the map access it is in the middle of, by its line.            *)

\* how many goroutines call into the site at the same time
NumGoroutines == 2

Goroutines == 1..NumGoroutines

\* a goroutine: the call it makes and where it is in it; name is the page
\* being rendered, inError says handleError is running with err, to is the
\* route the router chose and out is how the call ended
Goroutine(op, r, hname, h) ==
    [op |-> op, r |-> r, hname |-> hname, h |-> h, pc |-> "start", name |-> "",
     inError |-> FALSE, err |-> NilVal, to |-> "", out |-> ""]

ConcRequests ==
    {Request("", "/", "GET", FALSE, "", {}),
     Request("", "/nope", "GET", FALSE, "", {}),
     Request("", "/p", "GET", TRUE, "alice", {}),
     Request("/static/", "app.js", "GET", FALSE, "", {})}

ConcHandlers ==
    {<<"index", Handler("user", "", StrVal(Str("", "hello")), ZeroPageData)>>,
     <<"index", Handler("user", "", ErrVal(StatusNotFound), ZeroPageData)>>,
     <<"nope", Handler("user", "", StrVal(Str("", "hello")), ZeroPageData)>>}

ConcCalls ==
    {Goroutine("ServeHTTP", r, "", NoHandler) : r \in ConcRequests}
    \cup {Goroutine("SetDataHandler", Request("", "", "", FALSE, "", {}), nh[1], nh[2]) :
            nh \in ConcHandlers}

ConcConfigs ==
    {Config("ok", YAML("index" :> PlainPage @@ "private" :> JSONPage("ok.json"),
                       EmptyMap, ServeMetaData, FALSE, rl, "static", "/static/"), TRUE) :
        rl \in BOOLEAN}

\* the map a goroutine at pc is reading or writing, and whether it writes
AccessAt(pc) ==
    CASE pc \in {"L463", "L530", "L433", "L550", "L557", "L489"} ->
            [map |-> "Pages", write |-> FALSE]
      [] pc = "L494" -> [map |-> "Pages", write |-> TRUE]
      [] pc = "L548" -> [map |-> "templates", write |-> FALSE]
      [] pc = "L591" -> [map |-> "templates", write |-> TRUE]
      [] OTHER -> [map |-> "", write |-> FALSE]

\* two goroutines are in the same map at the same time and one of them writes
Race ==
    \E g, h \in DOMAIN gor :
        /\ g # h
        /\ AccessAt(gor[g].pc).map # ""
        /\ AccessAt(gor[g].pc).map = AccessAt(gor[h].pc).map
        /\ AccessAt(gor[g].pc).write

InitConc ==
    /\ cfg \in ConcConfigs
    /\ fs = InitFS
    /\ \E order \in ErrorsOrders(cfg) : site = NewSite(cfg, fs, order).site
    /\ result = "returned"
    /\ logged = {}
    /\ resp = NoResponse
    /\ NoCalls
    /\ gor \in [Goroutines -> ConcCalls]
    /\ locks = [mu |-> 0, onceM |-> 0]
    /\ builds = 0
    /\ fatal = FALSE
    /\ NoStaticSite

Running(g, op, pc) == ~ fatal /\ gor[g].op = op /\ gor[g].pc = pc

\* once.Do never making a second caller wait for the first
OnceNeverBlocks(s, l) == FALSE

\* once.Do makes the caller wait: the function has not returned yet and
\* another goroutine is running it
OnceBlocks(s, l) == ~ s.once /\ l.onceM # 0

\* site.once.Do(func() {...}): skip the function when it has run, else run it
OnceDo(g) ==
    /\ Running(g, "ServeHTTP", "start")
    /\ ~ OnceBlocks(site, locks)
    /\ IF site.once
       THEN gor' = [gor EXCEPT ![g].pc = "route"] /\ UNCHANGED locks
       ELSE gor' = [gor EXCEPT ![g].pc = "L463"] /\ locks' = [locks EXCEPT !.onceM = g]
    /\ UNCHANGED <<siteVars, fnVars, genVars, builds, fatal>>

\* the function given to once.Do: the range over site.Pages ends, the router
\* is complete and is assigned to site.router
RangePages(g) ==
    /\ Running(g, "ServeHTTP", "L463")
    /\ \E first \in FirstChoices(site) :
          site' = [site EXCEPT !.router = BuildRouter(site, first).router]
    /\ builds' = builds + 1
    /\ gor' = [gor EXCEPT ![g].pc = "onceReturn"]
    /\ UNCHANGED <<cfg, fs, result, logged, resp, fnVars, genVars, locks, fatal>>

\* the function has returned: once.Do marks it done and lets the waiters go
OnceReturn(g) ==
    /\ Running(g, "ServeHTTP", "onceReturn")
    /\ site' = [site EXCEPT !.once = TRUE]
    /\ locks' = [locks EXCEPT !.onceM = 0]
    /\ gor' = [gor EXCEPT ![g].pc = "route"]
    /\ UNCHANGED <<cfg, fs, result, logged, resp, fnVars, genVars, builds, fatal>>

\* whether the route's handler is the one ServePage returned, unwrapped
ToServePage(t) == t.to = "notfound" \/ (t.to = "page" /\ ~ t.auth)

\* site.router.ServeHTTP(rw, r): a nil router panics; else the route's handler
\* runs, up to its first access of site.Pages
RouterServeHTTP(g) ==
    /\ Running(g, "ServeHTTP", "route")
    /\ IF site.router.nil
       THEN gor' = [gor EXCEPT ![g].pc = "done", ![g].out = "panic"]
       ELSE LET t == Dispatch(site.router, gor[g].r) IN
            IF ToServePage(t)
            THEN gor' = [gor EXCEPT ![g].pc = "L530", ![g].name = t.name, ![g].to = t.to]
            ELSE gor' = [gor EXCEPT ![g].pc = "done", ![g].to = t.to,
                                    ![g].out = Handle(site, t, gor[g].r, fs).resp.kind]
    /\ UNCHANGED <<siteVars, fnVars, genVars, locks, builds, fatal>>

\* the goroutine after handleError(err) is called: handleError renders the
\* page of the error, and answers a plain 500 when that fails in turn
AfterError(me, s, err) ==
    IF me.inError THEN [me EXCEPT !.pc = "done", !.out = "http.Error"]
    ELSE LET code == ErrorCode(err) IN
         [me EXCEPT !.pc = "L530", !.inError = TRUE, !.err = err,
                    !.name = IF code \in DOMAIN s.errors THEN s.errors[code]
                             ELSE PageError]

\* getPageMetaData has read site.Pages[name] (and filled the page's metadata)
GetPageMetaDataRead(g) ==
    /\ Running(g, "ServeHTTP", "L530")
    /\ site' = getPageMetaData(site, gor[g].name).site
    /\ gor' = [gor EXCEPT ![g].pc = IF gor[g].inError THEN "L548" ELSE "L433"]
    /\ UNCHANGED <<cfg, fs, result, logged, resp, fnVars, genVars, locks, builds, fatal>>

\* ServePage has read site.Pages[name] and run the page's DataHandler
ServePageRead(g) ==
    /\ Running(g, "ServeHTTP", "L433")
    /\ LET me == gor[g]
           gd == GetPageData(site, me.name, me.r, NilVal)
           hasHandler == me.name \in DOMAIN site.Pages
                         /\ site.Pages[me.name].DataHandler.kind # "nil"
           h == IF hasHandler THEN site.Pages[me.name].DataHandler ELSE NoHandler
           data == ServePageDataOf(gd, hasHandler, RunHandler(h, site, fs))
       IN gor' = [gor EXCEPT ![g] = IF data.Data.type = "error"
                                     THEN AfterError(me, site, data.Data)
                                     ELSE [me EXCEPT !.pc = "L548"]]
    /\ UNCHANGED <<siteVars, fnVars, genVars, locks, builds, fatal>>

\* a goroutine whose template is ready: the page is executed and written
Rendered(me) == [me EXCEPT !.pc = "done", !.out = IF me.inError THEN "errorpage" ELSE "page"]

\* parseTemplate has read site.templates[name]
ParseTemplateLookup(g) ==
    /\ Running(g, "ServeHTTP", "L548")
    /\ gor' = [gor EXCEPT ![g].pc = IF gor[g].name \in DOMAIN site.templates
                                     THEN "L550" ELSE "L557"]
    /\ UNCHANGED <<siteVars, fnVars, genVars, locks, builds, fatal>>

\* parseTemplate found the template loaded and has read site.Pages[name].embed
ParseTemplateEmbed(g) ==
    /\ Running(g, "ServeHTTP", "L550")
    /\ LET me == gor[g]
           embed == me.name \in DOMAIN site.Pages /\ site.Pages[me.name].embed
       IN gor' = [gor EXCEPT ![g] = IF embed \/ ~ site.Reload THEN Rendered(me)
                                     ELSE [me EXCEPT !.pc = "L557"]]
    /\ UNCHANGED <<siteVars, fnVars, genVars, locks, builds, fatal>>

\* parseTemplate has read site.Pages[name] and parsed the page's files
ParseTemplatePage(g) ==
    /\ Running(g, "ServeHTTP", "L557")
    /\ LET me == gor[g]
           e == parsePageFiles(site, me.name, fs)
       IN gor' = [gor EXCEPT ![g] = IF e.err.type = "nil" THEN [me EXCEPT !.pc = "L591"]
                                     ELSE AfterError(me, site, e.err)]
    /\ UNCHANGED <<siteVars, fnVars, genVars, locks, builds, fatal>>

\* parseTemplate has stored the template in site.templates
ParseTemplateStore(g) ==
    /\ Running(g, "ServeHTTP", "L591")
    /\ site' = parsePageFiles(site, gor[g].name, fs).site
    /\ gor' = [gor EXCEPT ![g] = Rendered(gor[g])]
    /\ UNCHANGED <<cfg, fs, result, logged, resp, fnVars, genVars, locks, builds, fatal>>

\* site.mu.Lock() of SetDataHandler
Lock(g) ==
    /\ Running(g, "SetDataHandler", "start")
    /\ locks.mu = 0
    /\ locks' = [locks EXCEPT !.mu = g]
    /\ gor' = [gor EXCEPT ![g].pc = "L489"]
    /\ UNCHANGED <<siteVars, fnVars, genVars, builds, fatal>>

\* SetDataHandler has read site.Pages[name]; an unknown page ends the call
SetDataHandlerRead(g) ==
    /\ Running(g, "SetDataHandler", "L489")
    /\ IF gor[g].hname \in DOMAIN site.Pages
       THEN gor' = [gor EXCEPT ![g].pc = "L494"] /\ UNCHANGED locks
       ELSE /\ gor' = [gor EXCEPT ![g].pc = "done", ![g].out = "page not found"]
            /\ locks' = [locks EXCEPT !.mu = 0]
    /\ UNCHANGED <<siteVars, fnVars, genVars, builds, fatal>>

\* SetDataHandler has written site.Pages[name]; the deferred Unlock runs
SetDataHandlerWrite(g) ==
    /\ Running(g, "SetDataHandler", "L494")
    /\ site' = SetDataHandler(site, gor[g].hname, gor[g].h)
    /\ locks' = [locks EXCEPT !.mu = 0]
    /\ gor' = [gor EXCEPT ![g].pc = "done", ![g].out = "nil"]
    /\ UNCHANGED <<cfg, fs, result, logged, resp, fnVars, genVars, builds, fatal>>

\* the runtime notices a map being written while it is read or written by
\* another goroutine and ends the process (it may also not notice)
Throw ==
    /\ ~ fatal
    /\ Race
    /\ fatal' = TRUE
    /\ UNCHANGED <<siteVars, fnVars, genVars, gor, locks, builds>>

NextConc ==
    \/ \E g \in Goroutines :
          \/ OnceDo(g)
          \/ RangePages(g)
          \/ OnceReturn(g)
          \/ RouterServeHTTP(g)
          \/ GetPageMetaDataRead(g)
          \/ ServePageRead(g)
          \/ ParseTemplateLookup(g)
          \/ ParseTemplateEmbed(g)
          \/ ParseTemplatePage(g)
          \/ ParseTemplateStore(g)
          \/ Lock(g)
          \/ SetDataHandlerRead(g)
          \/ SetDataHandlerWrite(g)
    \/ Throw

SpecConc == InitConc /\ [][NextConc]_vars


----------------------------------------------------------------------------
(* Claims about concurrent calls *)

\* C8 (as stated): the Pages map and the templates map are guarded by the
\* site mutex, so that in no interleaving of concurrent requests, or of a
\* request with SetDataHandler, two goroutines are in one of these maps at
\* the same time with one of them writing. (Only SetDataHandler holds the
\* mutex during its accesses; the overlap below is what that allows.)
C8_Original == ~ Race

\* the routes the loop of ServeHTTP registers for the site's pages
RegisteredRoutes(s) ==
    {[path |-> s.Pages[n].Path, name |-> n, method |-> "GET", auth |-> s.Pages[n].Auth] :
        n \in DOMAIN s.Pages}

RouterComplete(s) ==
    /\ ~ s.router.nil
    /\ s.router.staticPrefix = s.StaticPrefix
    /\ s.router.routes = RegisteredRoutes(s)
    /\ \A q \in PagePaths(s) : q \in DOMAIN s.router.first /\ s.router.first[q] \in PagesAt(s, q)

\* once.Do has returned in the goroutine's ServeHTTP
PastOnce(g) ==
    gor[g].op = "ServeHTTP" /\ gor[g].pc \notin {"start", "L463", "onceReturn"}

\* the router has chosen the handler of the goroutine's request
Routed(g) == PastOnce(g) /\ gor[g].pc # "route"

MatchesNoRoute(s, r) ==
    /\ ~ HasPrefix(r.path, s.StaticPrefix)
    /\ \A n \in DOMAIN s.Pages : r.path.dir # "" \/ s.Pages[n].Path # r.path.name

\* C9: under concurrent first calls of ServeHTTP the router is built at most
\* once; a goroutine gets past once.Do only when the router has been built
\* exactly once and holds the static route and, for every configured page, a
\* GET route at the page's path that is wrapped in AuthRequired exactly when
\* the page has auth enabled; and a request whose path matches no page and not
\* the static prefix is handled by ServePage of the not_found page, which
\* renders that page.
C9_RouterBuiltOnce ==
    /\ builds <= 1
    /\ \A g \in DOMAIN gor :
          /\ PastOnce(g) => (builds = 1 /\ site.once /\ RouterComplete(site))
          /\ (Routed(g) /\ MatchesNoRoute(site, gor[g].r)) =>
                /\ gor[g].to = "notfound"
                /\ gor[g].name = PageNotFound
                /\ gor[g].pc = "done" => gor[g].out = "page"

\* two requests ran at the same time, both are answered, one by a page's
\* route and one by the not_found page, and the router was built once
C9_Witness ==
    \E g, h \in DOMAIN gor :
        /\ g # h
        /\ gor[g].op = "ServeHTTP" /\ gor[g].pc = "done" /\ gor[g].to = "page"
        /\ gor[h].op = "ServeHTTP" /\ gor[h].pc = "done" /\ gor[h].to = "notfound"
        /\ gor[h].out = "page"
        /\ builds = 1


----------------------------------------------------------------------------
(* The static site generator: staticGeneratorHandler wraps the site's       *)
(* handler and mirrors the responses of allowed pages to files.             *)

\* a path element, split where filepath.Ext splits it: a.d is Name("a", ".d")
Name(stem, ext) == [stem |-> stem, ext |-> ext]

\* r.URL.Path: its elements and whether it ends with a slash; "/" has no
\* element
URLPath(segs, slash) == [segs |-> segs, slash |-> slash]

\* a path of the file system: "" is FilePath(FALSE, <<>>), "/" is
\* FilePath(TRUE, <<>>)
FilePath(abs, segs) == [abs |-> abs, segs |-> segs]

Front(q) == SubSeq(q, 1, Len(q) - 1)
Last(q) == q[Len(q)]

\* path.Dir(r.URL.Path)
pathDir(p) ==
    IF p.segs = <<>> THEN FilePath(TRUE, <<>>)
    ELSE IF p.slash THEN FilePath(TRUE, p.segs)
    ELSE FilePath(TRUE, Front(p.segs))

\* path.Base(r.URL.Path): the separator for "/", else the last element
pathBase(p) ==
    IF p.segs = <<>> THEN [sep |-> TRUE, name |-> Name("", "")]
    ELSE [sep |-> FALSE, name |-> Last(p.segs)]

\* filepath.Ext(name) == "" ? name + ".html" : name
WithHTML(name) == IF name.ext = "" THEN Name(name.stem, ".html") ELSE name

IndexHTML == Name("index", ".html")

\* the dir and the name the handler derives from the request path
TargetOf(p) ==
    LET dir == pathDir(p)
        base == pathBase(p)
    IN IF dir = FilePath(TRUE, <<>>)
       THEN [dir |-> FilePath(FALSE, <<>>),
             name |-> IF base.sep THEN IndexHTML ELSE WithHTML(base.name)]
       ELSE IF base.sep
            THEN [dir |-> FilePath(TRUE, p.segs), name |-> IndexHTML]
            ELSE [dir |-> dir, name |-> WithHTML(base.name)]

\* filepath.Join(a, b): empty elements are ignored
Join(a, b) ==
    IF a = FilePath(FALSE, <<>>) THEN b
    ELSE IF b = FilePath(FALSE, <<>>) THEN a
    ELSE FilePath(a.abs, a.segs \o b.segs)

\* the patterns of allowed_pages: the kind of regular expression and, for a
\* prefix pattern "^/a", the first element it asks for; "(" does not compile
Pattern(re, stem) == [re |-> re, stem |-> stem]
PatAll == Pattern(".*", "")
PatRoot == Pattern("^/$", "")
PatUnder(stem) == Pattern("^/stem", stem)
PatInvalid == Pattern("(", "")

\* ok, _ := regexp.MatchString(page, r.URL.Path)
MatchString(page, p) ==
    IF page = PatInvalid THEN FALSE
    ELSE IF page = PatAll THEN TRUE
    ELSE IF page = PatRoot THEN p.segs = <<>>
    ELSE p.segs # <<>> /\ p.segs[1].stem = page.stem

\* the directories os.MkdirAll(dir) needs: dir and the ones above it
DirsOf(dir) == {FilePath(dir.abs, SubSeq(dir.segs, 1, k)) : k \in 1..Len(dir.segs)}

\* os.MkdirAll(dir) fails for the empty path and where a file is in the way
MkdirAllFails(d, dir) ==
    \/ dir = FilePath(FALSE, <<>>)
    \/ \E x \in DirsOf(dir) : x \in DOMAIN d.files

MkdirAll(d, dir) == [d EXCEPT !.dirs = d.dirs \cup DirsOf(dir)]

\* os.Create(pth) fails where pth is a directory; else the file is there, empty
CreateFails(d, pth) == pth \in d.dirs

Create(d, pth) == [d EXCEPT !.files = Put(d.files, pth, <<>>)]

\* a Write that keeps only the last chunk
ResponseWriterWriteLast(w, b) ==
    [w EXCEPT !.body = b, !.client = Append(w.client, b)]

\* ResponseWriter.Write(b): b is appended to body and passed on
ResponseWriterWrite(w, b) ==
    [w EXCEPT !.body = w.body \o b, !.client = Append(w.client, b)]

\* h.ServeHTTP(mw, r) for a handler that writes the chunks one after the other
RECURSIVE WriteAll(_, _)
WriteAll(w, chunks) ==
    IF chunks = <<>> THEN w
    ELSE WriteAll(ResponseWriterWrite(w, Head(chunks)), Tail(chunks))

\* the loop over AllowedPages from the i-th pattern on: the disk after it
\* and the files whose Write succeeded. short is -1 when f.Write succeeds,
\* else the number of bytes a failing f.Write leaves in the file
RECURSIVE GenerateFrom(_, _, _, _, _, _)
GenerateFrom(i, ss, p, body, d, short) ==
    IF i > Len(ss.AllowedPages) THEN [disk |-> d, wrote |-> {}]
    ELSE IF ~ MatchString(ss.AllowedPages[i], p)
    THEN GenerateFrom(i + 1, ss, p, body, d, short)
    ELSE
      LET t == TargetOf(p)
          dir == Join(ss.RootDir, t.dir)
          pth == Join(dir, FilePath(FALSE, <<t.name>>))
      IN IF MkdirAllFails(d, dir) THEN [disk |-> d, wrote |-> {}]
         ELSE IF CreateFails(MkdirAll(d, dir), pth)
         THEN [disk |-> MkdirAll(d, dir), wrote |-> {}]
         ELSE
           LET d1 == Create(MkdirAll(d, dir), pth)
               d2 == [d1 EXCEPT !.files[pth] =
                         IF short = -1 THEN body ELSE SubSeq(body, 1, short)]
               rest == GenerateFrom(i + 1, ss, p, body, d2, short)
           IN [disk |-> rest.disk,
               wrote |-> IF short = -1 THEN rest.wrote \cup {pth} ELSE rest.wrote]

\* how many requests go through the handler in one run
MaxRequests == 2

OutDir == FilePath(FALSE, <<Name("out", "")>>)

StaticSites ==
    {[RootDir |-> OutDir, AllowedPages |-> <<PatUnder("a"), PatAll>>],
     [RootDir |-> OutDir, AllowedPages |-> <<PatRoot, PatInvalid>>],
     [RootDir |-> OutDir, AllowedPages |-> <<PatUnder("a")>>],
     [RootDir |-> FilePath(FALSE, <<>>), AllowedPages |-> <<PatAll>>]}

StaticPaths ==
    {URLPath(<<>>, TRUE),
     URLPath(<<Name("a", "")>>, FALSE),
     URLPath(<<Name("a", "")>>, TRUE),
     URLPath(<<Name("a", ".d")>>, FALSE),
     URLPath(<<Name("a", ".d"), Name("x", "")>>, FALSE),
     URLPath(<<Name("b", "")>>, FALSE)}

\* what the wrapped handler writes: chunks of bytes
HandlerWrites ==
    {<<>>, << <<"x">> >>, << <<"x">>, <<"y", "z">> >>, << <<"y", "z">>, <<>>, <<"x">> >>}

InitStatic ==
    /\ cfg = Config("ok", EmptyYAML, FALSE)
    /\ fs = InitFS
    /\ site = DefaultSite
    /\ result = "returned"
    /\ logged = {}
    /\ resp = NoResponse
    /\ NoCalls
    /\ NoGoroutines
    /\ staticSite \in StaticSites
    /\ disk = EmptyDisk
    /\ served = [kind |-> "none", n |-> 0]

\* one request through site.staticGeneratorHandler()(h), from start to end
StaticGeneratorHandler(p, chunks, short) ==
    /\ served.n < MaxRequests
    /\ LET mw == WriteAll([body |-> <<>>, client |-> <<>>], chunks)
           out == GenerateFrom(1, staticSite, p, mw.body, disk, short)
       IN /\ short <= Len(mw.body)
          /\ disk' = out.disk
          /\ served' = [kind |-> "request", n |-> served.n + 1, path |-> p,
                        chunks |-> chunks, client |-> mw.client, wrote |-> out.wrote,
                        changed |-> out.disk # disk]
    /\ UNCHANGED <<siteVars, fnVars, concVars, staticSite>>

NextStatic ==
    \E p \in StaticPaths, chunks \in HandlerWrites, short \in {-1, 0, 1} :
        StaticGeneratorHandler(p, chunks, short)

SpecStatic == InitStatic /\ [][NextStatic]_vars

Allowed(ss, p) == \E i \in DOMAIN ss.AllowedPages : MatchString(ss.AllowedPages[i], p)

RECURSIVE Flatten(_)
Flatten(chunks) == IF chunks = <<>> THEN <<>> ELSE Head(chunks) \o Flatten(Tail(chunks))

\* C10: for every request through the static generator handler the client
\* gets every chunk the wrapped handler wrote, unchanged and in order; a
\* directory or file is created or changed only if the request path matches
\* an AllowedPages pattern (so a path that matches none changes nothing); and
\* every file written holds the chunks the handler wrote, concatenated in
\* order.
C10_StaticOnlyAllowed ==
    served.kind = "request" =>
        /\ served.client = served.chunks
        /\ served.changed => Allowed(staticSite, served.path)
        /\ \A f \in served.wrote :
              f \in DOMAIN disk.files /\ disk.files[f] = Flatten(served.chunks)

\* a request for /a that wrote three chunks was mirrored to out/a.html
C10_Witness ==
    /\ served.kind = "request"
    /\ served.path = URLPath(<<Name("a", "")>>, FALSE)
    /\ Len(served.chunks) = 3
    /\ served.wrote = {FilePath(FALSE, <<Name("out", ""), Name("a", ".html")>>)}
    /\ disk.files[FilePath(FALSE, <<Name("out", ""), Name("a", ".html")>>)]
          = <<"y", "z", "x">>


----------------------------------------------------------------------------
(* Pages whose data comes from a JSON file, while the file and site.Reload *)
(* change after construction                                               *)

JSONOpenPage(f) == [JSONPage(f) EXCEPT !.Path = "/j", !.Auth = FALSE]

JSONConfigs ==
    {Config("ok", YAML("index" :> JSONOpenPage(f), EmptyMap, ServeMetaData, FALSE, rl,
                       "static", "/static/"), TRUE) :
        f \in {"ok.json", "bad.json", "missing.json"}, rl \in BOOLEAN}

JSONRequests ==
    {Request("", "/j", "GET", FALSE, "", {}), Request("", "/nope", "GET", FALSE, "", {})}

\* what a data file may hold
FileContents == JSONObjects \cup {"garbage"}

\* the program, or anyone, writes the data file
WriteFile(f, c) ==
    /\ fs' = Put(fs, f, c)
    /\ UNCHANGED <<cfg, site, result, logged, resp, otherVars>>

\* the data file is removed
RemoveFile(f) ==
    /\ f \in DOMAIN fs
    /\ fs' = [x \in (DOMAIN fs) \ {f} |-> fs[x]]
    /\ UNCHANGED <<cfg, site, result, logged, resp, otherVars>>

\* site.Reload = b
SetReload(b) ==
    /\ result = "returned"
    /\ site' = [site EXCEPT !.Reload = b]
    /\ UNCHANGED <<cfg, fs, result, logged, resp, otherVars>>

InitJSON == InitWith(JSONConfigs)

NextJSON ==
    \/ NewSiteCall
    \/ \E r \in JSONRequests : ServeHTTP(r)
    \/ \E c \in FileContents : WriteFile("ok.json", c)
    \/ RemoveFile("ok.json")
    \/ \E b \in BOOLEAN : SetReload(b)

SpecJSON == InitJSON /\ [][NextJSON]_vars

\* the file can be read and parsed as a JSON object
Loadable(f, files) == f \in DOMAIN files /\ files[f] \in JSONObjects

\* the file of the JSON data of page n of the configuration
JSONFileOf(n) == cfg.yaml.Pages[n].Data.v.rest

\* the step is NewSite
IsNewSiteStep == result = "none" /\ result' # "none"

\* the step is a request that ran ServePage(n), n being a page of the file
\* with JSON data
IsJSONRequestStep(n) ==
    /\ result = "returned"
    /\ fs' = fs
    /\ site'.Reload = site.Reload
    /\ resp'.kind # "none"
    /\ resp'.calls = 1
    /\ resp'.page = n
    /\ n \in DOMAIN cfg.yaml.Pages
    /\ IsJSONData(cfg.yaml.Pages[n].Data)

C11_Step(n) ==
    LET f == JSONFileOf(n)
        h == site.Pages[n].DataHandler
        got == resp'.pageData.Data
    IN /\ resp'.kind # "panic"
       /\ ~ site.Reload => (got = h.data /\ got.type = "map" /\ resp'.kind = "page")
       /\ (site.Reload /\ Loadable(f, fs)) =>
              (got = MapVal(fs[f]) /\ resp'.kind = "page")
       /\ (site.Reload /\ ~ Loadable(f, fs)) =>
              (got.type = "error" /\ resp'.kind = "errorpage" /\ resp'.name = PageError)

\* C11: NewSite panics when the JSON file of a page cannot be read or parsed,
\* else the page's handler holds the file's content of that moment and keeps
\* it; a request made while site.Reload is false gets that content whatever
\* the file holds now; a request made while site.Reload is true gets the
\* file's present content, or an error value, on which the error page is
\* rendered without a panic, when the file cannot be read or parsed. Reload is
\* the value the site has when the request is made.
C11_JSONFileData ==
    [][/\ IsNewSiteStep =>
            \A n \in DOMAIN cfg.yaml.Pages : IsJSONData(cfg.yaml.Pages[n].Data) =>
                IF Loadable(JSONFileOf(n), fs)
                THEN /\ result' = "returned"
                     /\ site'.Pages[n].DataHandler.data = MapVal(fs[JSONFileOf(n)])
                ELSE result' = "panic"
       /\ \A n \in DOMAIN site.Pages :
            (result = "returned" /\ site.Pages[n].DataHandler.kind = "json") =>
                site'.Pages[n].DataHandler = site.Pages[n].DataHandler
       /\ \A n \in DOMAIN site.Pages : IsJSONRequestStep(n) => C11_Step(n)
      ]_vars

\* a site built with reload off and a good file; later Reload was set and the
\* file spoilt, and the request got the error page
C11_Witness ==
    /\ resp.kind = "errorpage"
    /\ resp.page = "index"
    /\ resp.handler.kind = "json"
    /\ resp.handler.data = MapVal("{a}")
    /\ resp.pageData.Data.type = "error"
    /\ ~ cfg.yaml.Reload
    /\ site.Reload


----------------------------------------------------------------------------
(* Functions that keep no state: the template function table and the       *)
(* template functions. call holds the arguments, ret the result.            *)

GeneralFuncNames ==
    {"is_empty", "default", "ternary", "coalesce", "env", "has", "has_any",
     "file_size", "uuid", "repeat", "join", "eq_any", "deep_eq", "map", "safe_html"}

StringFuncNames ==
    {"upper", "lower", "string", "trim", "trim_left", "trim_right", "trim_prefix",
     "trim_suffix", "title", "fields", "wc", "has_prefix", "has_suffix", "replace",
     "replace_all", "count", "split", "split_n"}

TimeFuncNames == {"date", "duration"}

\* a function value: the map it was taken from (0: the built-ins, i: the map
\* of the i-th option) and the name it had there
Fn(from, name) == [from |-> from, name |-> name]

\* funcs.FuncMap(): the general, string and time maps share no name
FuncMap ==
    [n \in GeneralFuncNames \cup StringFuncNames \cup TimeFuncNames |-> Fn(0, n)]

\* an option that keeps the function the site already has under a name
FuncsKeepsExisting(table, m) ==
    Meta([k \in (DOMAIN table.kv) \cup (DOMAIN m) |->
            IF k \in DOMAIN table.kv THEN table.kv[k] ELSE m[k]])

\* Funcs(m)(site): table is site.funcs before, the result is site.funcs after
Funcs(table, m) ==
    Meta([k \in (DOMAIN table.kv) \cup (DOMAIN m) |->
            IF k \in DOMAIN m THEN m[k] ELSE table.kv[k]])

\* for _, opt := range options { opt(&site) }
RECURSIVE ApplyFuncs(_, _)
ApplyFuncs(table, options) ==
    IF options = <<>> THEN table
    ELSE ApplyFuncs(Funcs(table, Head(options)), Tail(options))

\* site.funcs after NewSite(path, Funcs(m1), ..., Funcs(mk))
NewSiteFuncs(options) == ApplyFuncs(Meta(FuncMap), options)

\* how many Funcs options NewSite is given
MaxOptions == 2

\* the names user maps bind: two built-in names and two new ones
UserFuncNames == {"upper", "ternary", "mine", "other"}

\* the map given to the i-th Funcs option: each function is that map's own
UserFuncMaps(i) == {[n \in S |-> Fn(i, n)] : S \in SUBSET UserFuncNames}

RECURSIVE OptionLists(_)
OptionLists(k) ==
    IF k = 0 THEN {<<>>}
    ELSE OptionLists(k - 1)
         \cup {Append(o, m) : o \in {x \in OptionLists(k - 1) : Len(x) = k - 1},
                              m \in UserFuncMaps(k)}

FuncsCalls == {[fn |-> "NewSite", options |-> o] : o \in OptionLists(MaxOptions)}

\* site := NewSite(path, Funcs(m1), ...), as far as site.funcs goes
NewSiteFuncsCall ==
    /\ call.fn = "NewSite"
    /\ ret = NoCall
    /\ ret' = [fn |-> call.fn, funcs |-> NewSiteFuncs(call.options)]
    /\ UNCHANGED <<siteVars, call, concVars, genVars>>

\* the options that bind name n
Binding(options, n) == {i \in DOMAIN options : n \in DOMAIN options[i]}

Max(S) == CHOOSE x \in S : \A y \in S : y <= x

\* C12: after NewSite(path, Funcs(m1), ..., Funcs(mk)) the function table
\* binds exactly the built-in names and the names of the maps; a name some map
\* binds is bound to the function of the last map that binds it, also when it
\* is a built-in's name, and any other name is bound to the built-in.
C12_FuncsOption ==
    ret.fn = "NewSite" =>
        /\ ~ ret.funcs.nil
        /\ DOMAIN ret.funcs.kv =
              (DOMAIN FuncMap) \cup UNION {DOMAIN call.options[i] : i \in DOMAIN call.options}
        /\ \A n \in DOMAIN ret.funcs.kv :
              ret.funcs.kv[n] =
                  IF Binding(call.options, n) = {} THEN Fn(0, n)
                  ELSE call.options[Max(Binding(call.options, n))][n]

\* two options both bind the built-in name upper, and the second one's
\* function is the one in the table, next to the built-in trim
C12_Witness ==
    /\ ret.fn = "NewSite"
    /\ Len(call.options) = 2
    /\ "upper" \in DOMAIN call.options[1]
    /\ "upper" \in DOMAIN call.options[2]
    /\ ret.funcs.kv["upper"] = Fn(2, "upper")
    /\ ret.funcs.kv["trim"] = Fn(0, "trim")


----------------------------------------------------------------------------
(* Cache and ServeStatic. A time.Duration is counted in tenths of a second. *)

defaultMaxAge == 30 * 24 * 3600

Second == 10

\* int64(d.Seconds()) for a duration that is not negative
Int64Seconds(d) == d \div Second

\* the header value fmt.Sprintf("public, max-age=%d", n)
CacheControl(n) == [directive |-> "public", maxAge |-> n]

\* Cache(maxAge)(h) serving one request: the Cache-Control header it sets and
\* what it does in which order
Cache(maxAge) ==
    [header |-> CacheControl(IF maxAge = 0 THEN defaultMaxAge ELSE maxAge),
     did |-> <<"Header.Set", "h.ServeHTTP">>]

\* site.ServeStatic(prefix) serving one request
ServeStatic(cacheMaxAge) == Cache(Int64Seconds(cacheMaxAge))

\* cache_max_age as a file may give it: left out, less than a second, whole
\* seconds, a second and a half, a minute, 30 days
CacheMaxAges == {0, 1, 5, 9, Second, 15, 60 * Second, defaultMaxAge * Second}

CacheCalls ==
    {[fn |-> "Cache", maxAge |-> n] : n \in {0, 1, 60, 3600, defaultMaxAge}}
    \cup {[fn |-> "ServeStatic", CacheMaxAge |-> d] : d \in CacheMaxAges}

\* a request to a handler wrapped in Cache(maxAge)
CacheCall ==
    /\ call.fn = "Cache"
    /\ ret = NoCall
    /\ ret' = [fn |-> call.fn] @@ Cache(call.maxAge)
    /\ UNCHANGED <<siteVars, call, concVars, genVars>>

\* a request for a static file
ServeStaticCall ==
    /\ call.fn = "ServeStatic"
    /\ ret = NoCall
    /\ ret' = [fn |-> call.fn] @@ ServeStatic(call.CacheMaxAge)
    /\ UNCHANGED <<siteVars, call, concVars, genVars>>

\* C13 (as stated): Cache(maxAge) sets Cache-Control to "public, max-age=N"
\* before the wrapped handler runs, N being maxAge, or 2592000 when maxAge is
\* 0; and a static file carries max-age equal to the configured
\* cache_max_age in whole seconds, or 2592000 when cache_max_age is not
\* configured.
C13_Original ==
    /\ ret.fn = "Cache" =>
          /\ ret.header = CacheControl(IF call.maxAge = 0 THEN 2592000 ELSE call.maxAge)
          /\ ret.did = <<"Header.Set", "h.ServeHTTP">>
    /\ ret.fn = "ServeStatic" =>
          ret.header = CacheControl(IF call.CacheMaxAge = 0 THEN 2592000
                                    ELSE call.CacheMaxAge \div Second)

----------------------------------------------------------------------------
(* The general template functions                                          *)

\* a Go value given as interface{}: its kind; n, which is the number for a
\* number, the length for a string, slice or map, 1 for true and for a
\* pointer that is not nil, else 0; and a tag that tells values apart
GoValue(kind, n, tag) == [kind |-> kind, n |-> n, tag |-> tag]

Nil == GoValue("nil", 0, "nil")
True == GoValue("bool", 1, "true")
False == GoValue("bool", 0, "false")
Yes == GoValue("string", 3, "yes")
No == GoValue("string", 2, "no")

GoValues ==
    {Nil, True, False, Yes, No,
     GoValue("string", 0, ""), GoValue("int", 0, "0"), GoValue("int", 1, "1"),
     GoValue("int", -1, "-1"), GoValue("float", 0, "0.0"), GoValue("float", 2, "2.0"),
     GoValue("slice", 0, "[]"), GoValue("slice", 3, "[1 2 3]"),
     GoValue("map", 0, "map[]"), GoValue("map", 1, "map[x:y]"),
     GoValue("ptr", 0, "(*T)(nil)"), GoValue("ptr", 1, "&T{}"),
     GoValue("struct", 0, "T{}"), GoValue("unsafe.Pointer", 1, "p")}

\* template.IsTrue(v): truth and ok
TemplateIsTrue(v) ==
    IF v.kind = "nil" THEN [truth |-> FALSE, ok |-> TRUE]
    ELSE IF v.kind \in {"array", "map", "slice", "string"}
    THEN [truth |-> v.n > 0, ok |-> TRUE]
    ELSE IF v.kind = "bool" THEN [truth |-> v.n = 1, ok |-> TRUE]
    ELSE IF v.kind \in {"complex", "int", "float", "uint"}
    THEN [truth |-> v.n # 0, ok |-> TRUE]
    ELSE IF v.kind \in {"chan", "func", "ptr", "interface"}
    THEN [truth |-> v.n # 0, ok |-> TRUE]
    ELSE IF v.kind = "struct" THEN [truth |-> TRUE, ok |-> TRUE]
    ELSE [truth |-> FALSE, ok |-> FALSE]

\* an isTrue that only asks whether the value has a truth value at all
isTrueWhenOk(v) == TemplateIsTrue(v).ok

isTrue(v) ==
    LET t == TemplateIsTrue(v) IN IF t.truth /\ t.ok THEN t.ok ELSE FALSE

IsEmpty(v) == ~ isTrue(v)

YesNo(v, y, n) == IF isTrue(v) THEN y ELSE n

Default(df, v) == IF IsEmpty(v) THEN df ELSE v

\* a Coalesce that keeps looking and returns the last meaningful value
RECURSIVE CoalesceLast(_)
CoalesceLast(v) ==
    IF v = <<>> THEN Nil
    ELSE IF isTrue(v[Len(v)]) THEN v[Len(v)]
    ELSE CoalesceLast(SubSeq(v, 1, Len(v) - 1))

RECURSIVE Coalesce(_)
Coalesce(v) ==
    IF v = <<>> THEN Nil
    ELSE IF isTrue(Head(v)) THEN Head(v)
    ELSE Coalesce(Tail(v))

\* the arguments of f in the pipeline `. | f a1 ... ak`: the piped value is
\* passed as the last one
PipelineArgs(args, piped) == Append(args, piped)

\* how many arguments Coalesce is called with, at most
MaxArgs == 3

CoalesceValues ==
    {Nil, False, GoValue("string", 0, ""), GoValue("int", 0, "0"), True, Yes, No}

RECURSIVE ArgLists(_)
ArgLists(k) ==
    IF k = 0 THEN {<<>>}
    ELSE ArgLists(k - 1)
         \cup {Append(a, x) : a \in {y \in ArgLists(k - 1) : Len(y) = k - 1},
                              x \in CoalesceValues}

GeneralCalls ==
    {[fn |-> "ternary", args |-> PipelineArgs(<<Yes, No>>, v)] : v \in GoValues}
    \cup {[fn |-> "default", args |-> PipelineArgs(<<df>>, v)] :
            df \in {No, Nil}, v \in GoValues}
    \cup {[fn |-> "is_empty", args |-> <<v>>] : v \in GoValues}
    \cup {[fn |-> "coalesce", args |-> a] : a \in ArgLists(MaxArgs)}

\* {{ternary v y n}}
YesNoCall ==
    /\ call.fn = "ternary"
    /\ ret = NoCall
    /\ ret' = [fn |-> call.fn, val |-> YesNo(call.args[1], call.args[2], call.args[3])]
    /\ UNCHANGED <<siteVars, call, concVars, genVars>>

\* {{default df v}}
DefaultCall ==
    /\ call.fn = "default"
    /\ ret = NoCall
    /\ ret' = [fn |-> call.fn, val |-> Default(call.args[1], call.args[2])]
    /\ UNCHANGED <<siteVars, call, concVars, genVars>>

\* {{is_empty v}}
IsEmptyCall ==
    /\ call.fn = "is_empty"
    /\ ret = NoCall
    /\ ret' = [fn |-> call.fn, val |-> IF IsEmpty(call.args[1]) THEN True ELSE False]
    /\ UNCHANGED <<siteVars, call, concVars, genVars>>

\* {{coalesce v1 ... vn}}
CoalesceCall ==
    /\ call.fn = "coalesce"
    /\ ret = NoCall
    /\ ret' = [fn |-> call.fn, val |-> Coalesce(call.args)]
    /\ UNCHANGED <<siteVars, call, concVars, genVars>>

\* the values the descriptions list as meaningful: a number that is not zero,
\* a string, slice or map that is not empty, true
ListedKinds == {"nil", "bool", "int", "float", "string", "slice", "map"}

Meaningful(v) ==
    \/ v.kind \in {"int", "float"} /\ v.n # 0
    \/ v.kind \in {"string", "slice", "map"} /\ v.n > 0
    \/ v.kind = "bool" /\ v.n = 1

\* C14 (as stated): ternary returns the first value if the last value is
\* meaningful and the second value otherwise, so that `. | ternary "yes" "no"`
\* gives "yes" when the piped value is true and "no" when it is empty.
C14_Original ==
    (ret.fn = "ternary" /\ call.args[3].kind \in ListedKinds) =>
        ret.val = IF Meaningful(call.args[3]) THEN call.args[1] ELSE call.args[2]

\* C15: Default(df, v) is v when v is a non-zero number, a non-empty string,
\* slice or map, or true, and df when v is a zero number, an empty string,
\* slice or map, false or nil; for every value it is df when IsEmpty(v) and v
\* otherwise, and IsEmpty(v) is the negation of isTrue(v).
C15_Default ==
    /\ ret.fn = "default" =>
          /\ call.args[2].kind \in ListedKinds =>
                ret.val = IF Meaningful(call.args[2]) THEN call.args[2] ELSE call.args[1]
          /\ ret.val = IF IsEmpty(call.args[2]) THEN call.args[1] ELSE call.args[2]
          /\ IsEmpty(call.args[2]) = ~ isTrue(call.args[2])
    /\ ret.fn = "is_empty" =>
          /\ ret.val = (IF isTrue(call.args[1]) THEN False ELSE True)
          /\ call.args[1].kind \in ListedKinds =>
                ret.val = (IF Meaningful(call.args[1]) THEN False ELSE True)

\* `0 | default "no"` gave "no"
C15_Witness ==
    /\ ret.fn = "default"
    /\ call.args = <<No, GoValue("int", 0, "0")>>
    /\ ret.val = No

\* the index of the first meaningful argument, 0 when there is none
FirstTrue(a) ==
    IF \E i \in DOMAIN a : isTrue(a[i])
    THEN CHOOSE i \in DOMAIN a : isTrue(a[i]) /\ \A j \in 1..(i - 1) : ~ isTrue(a[j])
    ELSE 0

\* C16: Coalesce(v1, ..., vn) is the first argument, in order, that is
\* meaningful, whatever the arguments after it are, and nil when no argument
\* is meaningful or there is none.
C16_Coalesce ==
    ret.fn = "coalesce" =>
        ret.val = IF FirstTrue(call.args) = 0 THEN Nil
                  ELSE call.args[FirstTrue(call.args)]

\* coalesce "" "yes" "no" gave "yes"
C16_Witness ==
    /\ ret.fn = "coalesce"
    /\ call.args = <<GoValue("string", 0, ""), Yes, No>>
    /\ ret.val = Yes

----------------------------------------------------------------------------
(* The string template functions                                           *)

\* a string is the sequence of its characters
Chars(s) == {s[i] : i \in DOMAIN s}

\* strings.TrimLeft(s, cutset)
RECURSIVE stringsTrimLeft(_, _)
stringsTrimLeft(s, cutset) ==
    IF s = <<>> \/ cutset = <<>> THEN s
    ELSE IF Head(s) \in Chars(cutset) THEN stringsTrimLeft(Tail(s), cutset)
    ELSE s

\* strings.TrimRight(s, cutset)
RECURSIVE stringsTrimRight(_, _)
stringsTrimRight(s, cutset) ==
    IF s = <<>> \/ cutset = <<>> THEN s
    ELSE IF s[Len(s)] \in Chars(cutset)
    THEN stringsTrimRight(SubSeq(s, 1, Len(s) - 1), cutset)
    ELSE s

\* strings.Trim(s, cutset)
stringsTrim(s, cutset) ==
    IF s = <<>> \/ cutset = <<>> THEN s
    ELSE stringsTrimRight(stringsTrimLeft(s, cutset), cutset)

\* strings.HasPrefix(s, prefix)
stringsHasPrefix(s, prefix) ==
    Len(s) >= Len(prefix) /\ SubSeq(s, 1, Len(prefix)) = prefix

\* strings.HasSuffix(s, suffix)
stringsHasSuffix(s, suffix) ==
    Len(s) >= Len(suffix) /\ SubSeq(s, Len(s) - Len(suffix) + 1, Len(s)) = suffix

\* strings.TrimPrefix(s, prefix)
stringsTrimPrefix(s, prefix) ==
    IF stringsHasPrefix(s, prefix) THEN SubSeq(s, Len(prefix) + 1, Len(s)) ELSE s

\* strings.TrimSuffix(s, suffix)
stringsTrimSuffix(s, suffix) ==
    IF stringsHasSuffix(s, suffix) THEN SubSeq(s, 1, Len(s) - Len(suffix)) ELSE s

\* a trim that takes the subject string first
trimSubjectFirst(c, s) == stringsTrim(c, s)

trim(c, s) == stringsTrim(s, c)

trim_left(c, s) == stringsTrimLeft(s, c)

trim_right(c, s) == stringsTrimRight(s, c)

trim_prefix(c, s) == stringsTrimPrefix(s, c)

trim_suffix(c, s) == stringsTrimSuffix(s, c)

has_prefix(c, s) == stringsHasPrefix(s, c)

has_suffix(c, s) == stringsHasSuffix(s, c)

\* the function the name is bound to, applied
StringFunc(name, c, s) ==
    CASE name = "trim" -> trim(c, s)
      [] name = "trim_left" -> trim_left(c, s)
      [] name = "trim_right" -> trim_right(c, s)
      [] name = "trim_prefix" -> trim_prefix(c, s)
      [] name = "trim_suffix" -> trim_suffix(c, s)
      [] name = "has_prefix" -> has_prefix(c, s)
      [] name = "has_suffix" -> has_suffix(c, s)

\* how long the subject string is, at most
MaxLen == 3

\* how long the cutset, prefix or suffix is, at most
MaxCutLen == 2

Alphabet == {"x", "y"}

RECURSIVE Strings(_)
Strings(k) ==
    IF k = 0 THEN {<<>>}
    ELSE Strings(k - 1)
         \cup {Append(a, x) : a \in {y \in Strings(k - 1) : Len(y) = k - 1},
                              x \in Alphabet}

TrimFuncNames ==
    {"trim", "trim_left", "trim_right", "trim_prefix", "trim_suffix",
     "has_prefix", "has_suffix"}

\* {{ s | f c }}
StringCalls ==
    {[fn |-> f, args |-> PipelineArgs(<<c>>, s)] :
        f \in TrimFuncNames, c \in Strings(MaxCutLen), s \in Strings(MaxLen)}

StringFuncCall ==
    /\ call.fn \in TrimFuncNames
    /\ ret = NoCall
    /\ ret' = [fn |-> call.fn, val |-> StringFunc(call.fn, call.args[1], call.args[2])]
    /\ UNCHANGED <<siteVars, call, concVars, genVars>>

\* r is s without a longest run of leading characters that are all in c
LeftTrimmed(r, s, c) ==
    \E k \in 0..Len(s) :
        /\ r = SubSeq(s, k + 1, Len(s))
        /\ \A i \in 1..k : s[i] \in Chars(c)
        /\ r = <<>> \/ r[1] \notin Chars(c)

\* r is s without a longest run of trailing characters that are all in c
RightTrimmed(r, s, c) ==
    \E k \in 0..Len(s) :
        /\ r = SubSeq(s, 1, Len(s) - k)
        /\ \A i \in (Len(s) - k + 1)..Len(s) : s[i] \in Chars(c)
        /\ r = <<>> \/ r[Len(r)] \notin Chars(c)

\* C17: the helpers take the subject string last: with c the first argument
\* and s the last (piped) one, trim, trim_left and trim_right remove from s
\* every leading and/or trailing character that is in c, trim_prefix and
\* trim_suffix remove c from s once when s starts (ends) with it and leave s
\* unchanged otherwise, and has_prefix and has_suffix tell whether s starts
\* (ends) with c.
C17_StringHelpers ==
    ret.fn \in TrimFuncNames =>
        LET c == call.args[1]
            s == call.args[Len(call.args)]
            r == ret.val
        IN  /\ ret.fn = "trim_left" => LeftTrimmed(r, s, c)
            /\ ret.fn = "trim_right" => RightTrimmed(r, s, c)
            /\ ret.fn = "trim" =>
                  \E m \in Strings(MaxLen + 1) : LeftTrimmed(m, s, c) /\ RightTrimmed(r, m, c)
            /\ ret.fn = "trim_prefix" =>
                  IF \E t \in Strings(MaxLen + 1) : s = c \o t THEN s = c \o r ELSE r = s
            /\ ret.fn = "trim_suffix" =>
                  IF \E t \in Strings(MaxLen + 1) : s = t \o c THEN s = r \o c ELSE r = s
            /\ ret.fn = "has_prefix" => r = (\E t \in Strings(MaxLen + 1) : s = c \o t)
            /\ ret.fn = "has_suffix" => r = (\E t \in Strings(MaxLen + 1) : s = t \o c)

\* "xxy" | trim_prefix "x" gave "xy": one occurrence is removed, not both
C17_Witness ==
    /\ ret.fn = "trim_prefix"
    /\ call.args = <<(<<"x">>), <<"x", "x", "y">>>>
    /\ ret.val = <<"x", "y">>

----------------------------------------------------------------------------
(* Template delimiters                                                     *)

\* delim_left and delim_right of a page: none, one of them, both
PageDelims == {<<"", "">>, <<"<%", "">>, <<"", "%>">>, <<"<%", "%>">>}

\* delim_left and delim_right of the site: left out of the file, one of them
\* given, both given
SiteDelims ==
    {<<DefaultDelimLeft, DefaultDelimRight>>, <<"{{", DefaultDelimRight>>, <<"{{", "}}">>}

DelimPage(p, d) == [p EXCEPT !.DelimLeft = d[1], !.DelimRight = d[2]]

\* a page of the file, alone or with a page of the file that takes the name of
\* a default page
DelimPagesChoices ==
    {("index" :> DelimPage(PlainPage, d)) : d \in PageDelims}
    \cup {("index" :> DelimPage(PlainPage, d) @@ PageNotFound :> DelimPage(RawPage, e)) :
            d \in PageDelims, e \in PageDelims}

DelimConfigs ==
    {Config("ok", [YAML(ps, EmptyMap, ServeMetaData, FALSE, rl, "static", "/static/")
                      EXCEPT !.DelimLeft = sd[1], !.DelimRight = sd[2]], TRUE) :
        ps \in DelimPagesChoices, sd \in SiteDelims, rl \in BOOLEAN}

DelimRequests ==
    {Request("", "/", "GET", FALSE, "", {}), Request("", "/nope", "GET", FALSE, "", {}),
     Request("", "/sitemap.xml", "GET", FALSE, "", {})}

InitDelims == InitWith(DelimConfigs)

NextDelims ==
    \/ NewSiteCall
    \/ \E r \in DelimRequests : ServeHTTP(r)

SpecDelims == InitDelims /\ [][NextDelims]_vars

\* the page has delimiters of its own
OwnDelims(p) == p.DelimLeft # "" /\ p.DelimRight # ""

\* C18: a page's files are parsed with the page's delimiters only when both
\* its delim_left and delim_right are non-empty, and with both site-level
\* delimiters otherwise; the site-level delimiters are [[ and ]] unless the
\* configuration changes them; the common template and the embedded default
\* pages are parsed with [[ and ]] whatever the site and the page say.
C18_Delimiters ==
    /\ result = "returned" =>
          /\ site.DelimLeft = cfg.yaml.DelimLeft
          /\ site.DelimRight = cfg.yaml.DelimRight
    /\ \A n \in DOMAIN site.templates :
          LET t == site.templates[n]
              p == site.Pages[n]
          IN IF p.embed
             THEN /\ t.delimLeft = "[[" /\ t.delimRight = "]]"
                  /\ ~ t.common.parsed
             ELSE /\ t.common = Common("[[", "]]")
                  /\ IF OwnDelims(p)
                     THEN t.delimLeft = p.DelimLeft /\ t.delimRight = p.DelimRight
                     ELSE t.delimLeft = site.DelimLeft /\ t.delimRight = site.DelimRight

\* the site's delimiters are {{ and }}: a page that sets delim_left only was
\* parsed with them, a page that sets both with its own, and the embedded
\* sitemap with [[ and ]]
C18_Witness ==
    /\ site.DelimLeft = "{{" /\ site.DelimRight = "}}"
    /\ "index" \in DOMAIN site.templates
    /\ site.Pages["index"].DelimLeft = "<%" /\ site.Pages["index"].DelimRight = ""
    /\ site.templates["index"].delimLeft = "{{"
    /\ site.templates["index"].delimRight = "}}"
    /\ PageNotFound \in DOMAIN site.templates
    /\ ~ site.Pages[PageNotFound].embed
    /\ site.templates[PageNotFound].delimLeft = "<%"
    /\ site.templates[PageNotFound].delimRight = "%>"
    /\ site.templates[PageNotFound].common = Common("[[", "]]")
    /\ site.templates[PageSitemapXML].delimLeft = "[["

AllCalls == FuncsCalls \cup CacheCalls \cup GeneralCalls \cup StringCalls

InitFuncs ==
    /\ cfg = Config("unreadable", EmptyYAML, FALSE)
    /\ fs = InitFS
    /\ site = DefaultSite
    /\ result = "none"
    /\ logged = {}
    /\ resp = NoResponse
    /\ call \in AllCalls
    /\ ret = NoCall
    /\ NoGoroutines
    /\ NoStaticSite

NextFuncs ==
    \/ NewSiteFuncsCall
    \/ CacheCall
    \/ ServeStaticCall
    \/ YesNoCall
    \/ DefaultCall
    \/ IsEmptyCall
    \/ CoalesceCall
    \/ StringFuncCall

SpecFuncs == InitFuncs /\ [][NextFuncs]_vars

====
